---- MODULE Spec2Model ----
(***************************************************************************)
(* Verification model of the Flow controller's Loader                      *)
(* (package controller, kept in src/pkg/traces/config_test.go from line    *)
(* 1780 on): graph construction and full evaluation (Apply), incremental   *)
(* evaluation (EvaluateDependencies, concurrentEvalFn) and the sort of     *)
(* declare blocks (SortDeclareBlocks).                                     *)
(***************************************************************************)
EXTENDS Integers, Sequences, FiniteSets, Bags, TLC

VARIABLES
    declareBlocks,   \* SortDeclareBlocks: the declare blocks handed to it
    sortResult,      \* SortDeclareBlocks: what it returned, or NotCalled
    graph,           \* Loader.graph: the installed (reduced) graph
    originalGraph,   \* Loader.originalGraph
    componentNodes,  \* Loader.componentNodes
    serviceNodes,    \* Loader.serviceNodes
    nodeBlock,       \* the block each node instance points at
    nodeExports,     \* the current exports of each ComponentNode instance
    cacheExports,    \* Loader.cache: component ID -> cached exports
    mutWriter,       \* Loader.mut: who holds the write lock, or "none"
    mutReaders,      \* Loader.mut: who holds a read lock
    mutWaiting,      \* Loader.mut: who is blocked in Lock()
    ap,              \* the Apply call in progress: its locals and position
    applyCount,      \* number of Apply calls made so far
    lastApply,       \* what the last finished Apply call was given and did
    changed,         \* a component changed its exports since Apply was called
    workQueue,           \* worker pool: the tasks waiting for a worker
    workers,         \* worker pool: what each worker is running
    ed,              \* the EvaluateDependencies call in progress
    edCount,         \* number of EvaluateDependencies calls made so far
    lastED,          \* what the last finished EvaluateDependencies call did
    ctxCancelled,    \* the ctx of the EvaluateDependencies call is done
    isModule,        \* Loader.isModule(): globals.OnExportsChange is set
    moduleExports,   \* Loader.cache: the module's export values by label
    exportIndex,     \* Loader.cache: ExportChangeIndex()
    moduleExportIndex, \* Loader.moduleExportIndex
    notified,        \* the versions OnExportsChange was called for, in order
    updated,         \* the components whose new exports await EvaluateDependencies
    evalCtx,         \* node ID -> the context of the node's last evaluation
    poolStopped,     \* Pool.Stop() was called
    heap,            \* the dag.Graph objects, by address
    ptr,             \* the addresses held by the Loader and by its callers
    activeTargets,   \* scrapePool.activeTargets: hash -> scrape loop
    scrapeLoops,     \* every scrape loop made so far: started or stopped
    synced,          \* the calls of the scrape pool so far, the last sync
    scrapePool,      \* scrapePool.config, .scrapeClient and .mtx
    loopRun,         \* the goroutine of every scrape loop made so far
    manager,         \* loki client Manager: what NewManager returned
    created,         \* the clients made and WAL watchers started by NewManager
    fwd,             \* Manager: the goroutine reading Manager.entries
    accepted,        \* the entries received from Manager.entries, in order
    sends,           \* the sends to clients' channels, in order
    stopCalls,       \* Manager.Stop: the position of every caller
    allSeries,       \* xray Component.allSeries: labels -> summary
    cacheMut,        \* xray Component.cacheMut: writer and readers
    xrayCalls        \* xray: the position of every call in progress

sortVars == <<declareBlocks, sortResult>>

loaderVars ==
    <<graph, originalGraph, componentNodes, serviceNodes, nodeBlock,
      nodeExports, cacheExports>>

mutVars == <<mutWriter, mutReaders, mutWaiting>>

applyVars == <<ap, applyCount, lastApply, changed>>

poolVars == <<workQueue, workers>>

edVars == <<ed, edCount, lastED, ctxCancelled>>

concVars == <<poolVars, edVars>>

modVars ==
    <<isModule, moduleExports, exportIndex, moduleExportIndex, notified>>

waveVars == <<updated, evalCtx>>

ptrVars == <<heap, ptr>>
scrapeVars == <<activeTargets, scrapeLoops, synced, scrapePool, loopRun>>
lokiVars == <<manager, created, fwd, accepted, sends, stopCalls>>
xrayVars == <<allSeries, cacheMut, xrayCalls>>

vars ==
    <<sortVars, loaderVars, mutVars, applyVars, concVars, modVars, waveVars,
      poolStopped, ptrVars, scrapeVars, lokiVars, xrayVars>>

\* Everything but the loki client Manager and the xray component.
flowVars ==
    <<sortVars, loaderVars, mutVars, applyVars, concVars, modVars, waveVars,
      poolStopped, ptrVars, scrapeVars>>

(***************************************************************************)
(* Generic helpers                                                         *)
(***************************************************************************)
Range(s) == {s[i] : i \in 1..Len(s)}

RECURSIVE SeqSum(_)
SeqSum(s) == IF s = <<>> THEN 0 ELSE Head(s) + SeqSum(Tail(s))

\* All orders in which the elements of a finite set can be listed.
RECURSIVE Perms(_)
Perms(S) ==
    IF S = {} THEN {<<>>}
    ELSE UNION {{<<x>> \o p : p \in Perms(S \ {x})} : x \in S}

(***************************************************************************)
(* Blocks, nodes and graphs                                                *)
(*                                                                         *)
(* A block is [kind |-> "block", name, label, refs, val, body, gen]: refs  *)
(* are the IDs of the nodes its expressions reference, val stands for the  *)
(* rest of its attributes, body holds the statements of a declare block    *)
(* and gen tells the blocks of one Apply call from those of another (a     *)
(* block reference is a pointer into the file parsed for that call).       *)
(*                                                                         *)
(* A node is [id, kind, ns, gen, role]; two nodes are the same instance    *)
(* iff the records are equal (gen: the Apply call that constructed it,     *)
(* role: built for the graph, for a declare template, or by DeepClone).    *)
(* The mutable fields of a node (its block, its exports) live in nodeBlock *)
(* and nodeExports.  A graph is [nodes |-> sequence in insertion order,    *)
(* edges |-> set of <<from, to>>], From depending on To.                   *)
(***************************************************************************)
NilBlock ==
    [kind |-> "block", name |-> "", label |-> "", refs |-> {}, val |-> 0,
     body |-> <<>>, gen |-> 0]

Blk(name, label, refs, val) ==
    [kind |-> "block", name |-> name, label |-> label, refs |-> refs,
     val |-> val, body |-> <<>>, gen |-> 0]

DeclareBlk(label, body) ==
    [kind |-> "declare", name |-> "declare", label |-> label, refs |-> {},
     val |-> 0, body |-> body, gen |-> 0]

\* The blocks of a file as parsed for Apply call number g.
RECURSIVE Stamp(_, _)
Stamp(blocks, g) ==
    [i \in 1..Len(blocks) |->
        [blocks[i] EXCEPT !.gen = g, !.body = Stamp(blocks[i].body, g)]]

BlockComponentID(b) ==
    IF b.label = "" THEN b.name ELSE b.name \o "." \o b.label

Node(id, kind, ns, gen, role) ==
    [id |-> id, kind |-> kind, ns |-> ns, gen |-> gen, role |-> role]

EmptyGraph == [nodes |-> <<>>, edges |-> {}]

NodeSet(g) == Range(g.nodes)

HasID(g, id) == \E n \in NodeSet(g) : n.id = id

GetByID(g, id) == CHOOSE n \in NodeSet(g) : n.id = id

\* Graph.Add: a node already in the graph is not added again.
GraphAdd(g, n) ==
    IF n \in NodeSet(g) THEN g ELSE [g EXCEPT !.nodes = Append(@, n)]

GraphAddEdge(g, from, to) == [g EXCEPT !.edges = @ \cup {<<from, to>>}]

\* The nodes reachable from the nodes of `frontier` over one or more edges.
RECURSIVE ReachOver(_, _, _)
ReachOver(edges, frontier, seen) ==
    LET next == {e[2] : e \in {f \in edges : f[1] \in frontier}}
    IN  IF next \subseteq seen THEN seen
        ELSE ReachOver(edges, next \ seen, seen \cup next)

EndPoints(edges) == {e[1] : e \in edges} \cup {e[2] : e \in edges}

\* dag.Validate: the nodes that lie on a cycle of the graph.
CycleNodes(g) ==
    {n \in EndPoints(g.edges) : n \in ReachOver(g.edges, {n}, {})}

\* dag.Reduce: an edge is dropped when a longer path joins its end points.
Reduce(g) ==
    [g EXCEPT !.edges =
        {e \in g.edges :
            ~\E m \in EndPoints(g.edges) \ {e[1], e[2]} :
                /\ m \in ReachOver(g.edges, {e[1]}, {})
                /\ e[2] \in ReachOver(g.edges, {m}, {})}]

\* dag.WalkIncomingNodes: the nodes with an edge to n.
IncomingNodes(g, n) == {e[1] : e \in {f \in g.edges : f[2] = n}}

\* dag.WalkTopological from the leaves: a node of the graph is visited once
\* every node of the graph it has an edge to has been visited; among the
\* ready nodes the one inserted first goes first.
RECURSIVE WalkTopological(_, _)
WalkTopological(g, visited) ==
    LET done == Range(visited)
        ready == {i \in 1..Len(g.nodes) :
                     /\ g.nodes[i] \notin done
                     /\ \A e \in g.edges :
                           (e[1] = g.nodes[i] /\ e[2] \in NodeSet(g))
                              => e[2] \in done}
    IN  IF ready = {} THEN visited
        ELSE LET i == CHOOSE j \in ready : \A k \in ready : j <= k
             IN  WalkTopological(g, Append(visited, g.nodes[i]))

\* The opposite walk: dependants before what they depend on.
RECURSIVE WalkFromRoots(_, _)
WalkFromRoots(g, visited) ==
    LET done == Range(visited)
        ready == {i \in 1..Len(g.nodes) :
                     /\ g.nodes[i] \notin done
                     /\ \A e \in g.edges :
                           (e[2] = g.nodes[i] /\ e[1] \in NodeSet(g))
                              => e[1] \in done}
    IN  IF ready = {} THEN visited
        ELSE LET i == CHOOSE j \in ready : \A k \in ready : j <= k
             IN  WalkFromRoots(g, Append(visited, g.nodes[i]))

(***************************************************************************)
(* SortDeclareBlocks                                                       *)
(*                                                                         *)
(* A declare block is [label, body]; a statement of a body is              *)
(*   [kind |-> "block", name |-> n]          a block named n               *)
(*   [kind |-> "declare", body |-> <<...>>]  a nested declare block        *)
(*   [kind |-> "attr"]                       anything that is no block     *)
(***************************************************************************)
Labels == {"a", "b", "c"}

\* Bounds of the inputs handed to SortDeclareBlocks: as many blocks as there
\* are labels (so that labels can repeat), MaxStmts statements in all.
MaxDecl == Cardinality(Labels)
MaxStmts == 3

NotCalled == [called |-> FALSE]

SortInit ==
    /\ declareBlocks = <<>>
    /\ sortResult = NotCalled

BlockStmt(n) == [kind |-> "block", name |-> n]
NestedDeclare(b) == [kind |-> "declare", body |-> b]

\* Statements a body is drawn from: blocks named after a label or after a
\* registered component, and nested declares holding at most one block.
TopStmts ==
    {BlockStmt(n) : n \in Labels \cup {"comp"}}
      \cup {NestedDeclare(<<BlockStmt("a")>>)}

\* strings.Compare on the labels of the model.
StrRank(s) == CASE s = "a" -> 1 [] s = "b" -> 2 [] s = "c" -> 3 [] OTHER -> 4

\* sort.Strings: ascending, duplicates kept (insertion into a sorted list).
RECURSIVE InsertSorted(_, _)
InsertSorted(x, s) ==
    IF s = <<>> THEN <<x>>
    ELSE IF StrRank(x) <= StrRank(Head(s)) THEN <<x>> \o s
    ELSE <<Head(s)>> \o InsertSorted(x, Tail(s))

RECURSIVE SortStrings(_)
SortStrings(s) ==
    IF s = <<>> THEN <<>>
    ELSE InsertSorted(Head(s), SortStrings(Tail(s)))

\* blockByLabel[label] = block, filled in input order: the last block of a
\* label wins.
RECURSIVE BlockByLabel(_)
BlockByLabel(blocks) ==
    IF blocks = <<>> THEN <<>>
    ELSE LET rest == BlockByLabel(SubSeq(blocks, 1, Len(blocks) - 1))
             last == blocks[Len(blocks)]
         IN  [l \in DOMAIN rest \cup {last.label} |->
                 IF l = last.label THEN last ELSE rest[l]]

\* A slip findDeclareDependencies could have: nested declare bodies skipped.
RECURSIVE findDeclareDependenciesFlat(_, _)
findDeclareDependenciesFlat(body, known) ==
    IF body = <<>> THEN <<>>
    ELSE LET stmt == Head(body)
             here == IF stmt.kind = "block" /\ stmt.name \in known
                        THEN <<stmt.name>>
                     ELSE <<>>
         IN  here \o findDeclareDependenciesFlat(Tail(body), known)

\* findDeclareDependencies: the names of the body's blocks that are labels
\* of declare blocks, nested declare bodies included, repetitions kept.
RECURSIVE findDeclareDependencies(_, _)
findDeclareDependencies(body, known) ==
    IF body = <<>> THEN <<>>
    ELSE LET stmt == Head(body)
             here == IF stmt.kind = "declare"
                        THEN findDeclareDependencies(stmt.body, known)
                     ELSE IF stmt.kind = "block" /\ stmt.name \in known
                        THEN <<stmt.name>>
                     ELSE <<>>
         IN  here \o findDeclareDependencies(Tail(body), known)

\* Number of times x occurs in sequence s.
Occurrences(x, s) == Cardinality({i \in 1..Len(s) : s[i] = x})

\* inDegree[label]: one per dependency found in the blocks of that label.
InDegree(blocks) ==
    LET known == DOMAIN BlockByLabel(blocks)
    IN  [l \in known |->
            SeqSum([i \in 1..Len(blocks) |->
                IF blocks[i].label = l
                   THEN Len(findDeclareDependencies(blocks[i].body, known))
                   ELSE 0])]

\* graph[dep]: the labels depending on dep, once per dependency, in the
\* order the second loop appends them.
RECURSIVE DependentsOf(_, _, _)
DependentsOf(dep, blocks, known) ==
    IF blocks = <<>> THEN <<>>
    ELSE LET b == Head(blocks)
             n == Occurrences(dep, findDeclareDependencies(b.body, known))
         IN  [i \in 1..n |-> b.label] \o DependentsOf(dep, Tail(blocks), known)

\* The inner loop of Kahn's algorithm over graph[label].
RECURSIVE ReleaseDependents(_, _, _)
ReleaseDependents(deps, inDeg, queue) ==
    IF deps = <<>> THEN [inDegree |-> inDeg, queue |-> queue]
    ELSE LET d == Head(deps)
             nd == [inDeg EXCEPT ![d] = @ - 1]
         IN  ReleaseDependents(Tail(deps), nd,
                               IF nd[d] = 0 THEN Append(queue, d) ELSE queue)

\* The outer loop: pop the head of the queue, emit its block.
RECURSIVE KahnLoop(_, _, _, _)
KahnLoop(queue, sorted, inDeg, blocks) ==
    IF queue = <<>> THEN [sortedList |-> sorted, inDegree |-> inDeg]
    ELSE LET label == Head(queue)
             known == DOMAIN inDeg
             r == ReleaseDependents(DependentsOf(label, blocks, known),
                                    inDeg, Tail(queue))
         IN  KahnLoop(r.queue, Append(sorted, BlockByLabel(blocks)[label]),
                      r.inDegree, blocks)

\* A slip UnresolvedLabels could have: the labels left as the map yields
\* them (one order a Go map can produce: descending).
RECURSIVE Reverse(_)
Reverse(s) == IF s = <<>> THEN <<>> ELSE Append(Reverse(Tail(s)), Head(s))

UnresolvedLabelsUnsorted(inDeg) ==
    LET S == {l \in DOMAIN inDeg : inDeg[l] > 0}
    IN  Reverse(SortStrings(CHOOSE s \in Perms(S) : TRUE))

\* The labels SortDeclareBlocks reports as unresolved, as printed.
UnresolvedLabels(inDeg) ==
    LET S == {l \in DOMAIN inDeg : inDeg[l] > 0}
    IN  SortStrings(CHOOSE s \in Perms(S) : TRUE)

CycleDiag(labels) ==
    [severity |-> "error", kind |-> "declare-cycle", unresolved |-> labels]

\* SortDeclareBlocks(declareBlocks), for one iteration order `queue0` of the
\* blockByLabel map over the labels of in-degree zero.
SortDeclareBlocks(blocks, queue0) ==
    LET byLabel == BlockByLabel(blocks)
        k == KahnLoop(queue0, <<>>, InDegree(blocks), blocks)
    IN  IF Len(k.sortedList) # Cardinality(DOMAIN byLabel)
           THEN [called |-> TRUE, sortedList |-> <<>>, isNil |-> TRUE,
                 diags |-> <<CycleDiag(UnresolvedLabels(k.inDegree))>>]
           ELSE [called |-> TRUE, sortedList |-> k.sortedList,
                 isNil |-> (k.sortedList = <<>>), diags |-> <<>>]

\* The iteration orders of `for label := range blockByLabel` restricted to
\* the labels the first loop enqueues.
InitialQueues(blocks) ==
    LET inDeg == InDegree(blocks)
    IN  Perms({l \in DOMAIN inDeg : inDeg[l] = 0})


(***************************************************************************)
(* loadNewGraph and the populate functions                                 *)
(*                                                                         *)
(* The functions build a graph in the record                               *)
(*   [g, diags, blk, orig]                                                 *)
(* g: the graph under construction, diags: the diagnostics so far, blk:    *)
(* nodeBlock as the calls to UpdateBlock and the constructors leave it,    *)
(* orig: Loader.originalGraph as loadNewGraph leaves it.                   *)
(***************************************************************************)
\* The component registry, the services handed to NewLoader and the names
\* NewConfigNode accepts inside a module.
Registry == {"comp", "fixed", "broken", "invalid"}
ServiceList == <<"svc">>
ServiceNames == Range(ServiceList)
ServiceDependsOn(id) == {}
ConfigNames == {"argument", "export"}

Diag(kind, id) == [severity |-> "error", kind |-> kind, id |-> id]

HasErrors(diags) == \E i \in 1..Len(diags) : diags[i].severity = "error"

AddDiag(bs, d) == [bs EXCEPT !.diags = Append(@, d)]

SetBlk(h, n, b) == [m \in DOMAIN h \cup {n} |-> IF m = n THEN b ELSE h[m]]

BlockOf(h, n) == IF n \in DOMAIN h THEN h[n] ELSE NilBlock

SetToSeq(S) == CHOOSE q \in Perms(S) : TRUE

IsServiceBlock(b) == BlockComponentID(b) \in ServiceNames
IsComponentBlock(b) == ~IsServiceBlock(b)

\* CategorizeStatements on the body of a declare block.
IsConfigStmt(st) == st.kind = "block" /\ st.name \in ConfigNames
IsDeclareStmt(st) == st.kind = "declare"
IsComponentStmt(st) == st.kind = "block" /\ st.name \notin ConfigNames

\* A ServiceNode that keeps the block it had.
KeepServiceBlock(h, node) == SetBlk(h, node, BlockOf(nodeBlock, node))

\* populateServiceNodes, line 2249: node.UpdateBlock(nil).
ResetServiceBlock(h, node) == SetBlk(h, node, NilBlock)

\* populateServiceNodes, first loop: one node per service, taken from the
\* installed graph when it has one, its block reset to nil.
RECURSIVE BuildServiceNodes(_, _, _)
BuildServiceNodes(bs, svcs, gen) ==
    IF svcs = <<>> THEN bs
    ELSE LET id == Head(svcs)
         IN  IF HasID(bs.g, id)
                THEN BuildServiceNodes(AddDiag(bs, Diag("service-exists", id)),
                                       Tail(svcs), gen)
                ELSE LET node == IF HasID(graph, id) THEN GetByID(graph, id)
                                 ELSE Node(id, "service", "", gen, "node")
                     IN  BuildServiceNodes(
                             [bs EXCEPT !.blk = ResetServiceBlock(@, node),
                                        !.g = GraphAdd(@, node)],
                             Tail(svcs), gen)

\* populateServiceNodes, second loop: blocks are assigned to their services.
RECURSIVE AssignServiceBlocks(_, _)
AssignServiceBlocks(bs, blocks) ==
    IF blocks = <<>> THEN bs
    ELSE LET block == Head(blocks)
             node == GetByID(bs.g, BlockComponentID(block))
         IN  IF BlockOf(bs.blk, node) # NilBlock
                THEN AssignServiceBlocks(
                         AddDiag(bs, Diag("duplicate-service", node.id)),
                         Tail(blocks))
                ELSE AssignServiceBlocks(
                         [bs EXCEPT !.blk = SetBlk(@, node, block)], Tail(blocks))

populateServiceNodes(bs, serviceBlocks, gen) ==
    AssignServiceBlocks(BuildServiceNodes(bs, ServiceList, gen), serviceBlocks)

\* populateConfigBlockNodes, the loop; `local` are the diagnostics of this
\* call, which stop every later block from being added once it has an error.
RECURSIVE AddConfigNodes(_, _, _, _, _)
AddConfigNodes(bs, blocks, local, gen, role) ==
    IF blocks = <<>> THEN [bs EXCEPT !.diags = @ \o local]
    ELSE LET block == Head(blocks)
             node == Node(BlockComponentID(block), block.name, "", gen, role)
         IN  IF HasID(bs.g, node.id)
                THEN AddConfigNodes(bs, Tail(blocks),
                         Append(local, Diag("config-redeclared", node.id)),
                         gen, role)
             ELSE IF HasErrors(local)
                THEN AddConfigNodes(bs, Tail(blocks), local, gen, role)
             ELSE AddConfigNodes(
                      [bs EXCEPT !.blk = SetBlk(@, node, block),
                                 !.g = GraphAdd(@, node)],
                      Tail(blocks), local, gen, role)

\* populateConfigBlockNodes: outside a module the default logging and
\* tracing nodes are made (no block of the model configures them).
populateConfigBlockNodes(bs, configBlocks, inModule, gen, role) ==
    LET a == AddConfigNodes(bs, configBlocks, <<>>, gen, role)
        logging == Node("logging", "config", "", gen, role)
        tracing == Node("tracing", "config", "", gen, role)
    IN  IF inModule THEN a
        ELSE [a EXCEPT !.blk = SetBlk(SetBlk(@, logging, NilBlock),
                                      tracing, NilBlock),
                       !.g = GraphAdd(GraphAdd(@, logging), tracing)]

\* Graph.DeepClone(ns): a new instance of every node, its ID prefixed with
\* the namespace, pointing at the block of the node it copies.
CloneOf(t, ns, gen) == Node(ns \o "." \o t.id, t.kind, ns, gen, "clone")

DeepClone(tg, ns, gen, blk) ==
    LET olds == NodeSet(tg)
        news == {CloneOf(t, ns, gen) : t \in olds}
    IN  [g |-> [nodes |-> [i \in 1..Len(tg.nodes) |-> CloneOf(tg.nodes[i], ns, gen)],
                edges |-> {<<CloneOf(e[1], ns, gen), CloneOf(e[2], ns, gen)>> :
                               e \in tg.edges}],
         blk |-> [m \in DOMAIN blk \cup news |->
                     IF m \in news
                        THEN BlockOf(blk, CHOOSE t \in olds : CloneOf(t, ns, gen) = m)
                        ELSE blk[m]]]

\* MergeSubgraph, the loop over subgraph.Nodes().
RECURSIVE MergeNodes(_, _)
MergeNodes(bs, subNodes) ==
    IF subNodes = <<>> THEN bs
    ELSE LET node == Head(subNodes)
         IN  IF /\ HasID(graph, node.id)
                /\ GetByID(graph, node.id).kind = "component"
                /\ node.kind = "component"
                THEN LET existing == GetByID(graph, node.id)
                     IN  MergeNodes(
                             [bs EXCEPT
                                 !.blk = SetBlk(@, existing, BlockOf(bs.blk, node)),
                                 !.g = GraphAdd(@, existing)],
                             Tail(subNodes))
                ELSE MergeNodes([bs EXCEPT !.g = GraphAdd(@, node)],
                                Tail(subNodes))

\* Graph.MergeEdges(subgraph): the edges of the subgraph, which connect the
\* nodes of the subgraph, are added to the edges of the graph.
MergeEdges(edges, sub) == edges \cup sub.edges

\* MergeSubgraph: the nodes, then Graph.MergeEdges(subgraph).
MergeSubgraph(bs, sub) ==
    LET m == MergeNodes(bs, sub.nodes)
    IN  [m EXCEPT !.g.edges = MergeEdges(@, sub)]

\* An instance whose arguments are not connected to it.
NoArgumentEdges(args, dnode) == {}

\* populateComponentNodes, lines 2402-2409: an edge from each argument of
\* the instance to its DeclareComponentNode.
ArgumentEdges(args, dnode) == {<<n, dnode>> : n \in args}

\* populateComponentNodes, the branch that instantiates a declare template.
InstantiateTemplate(bs, block, id, template, gen, role) ==
    LET cloned == DeepClone(template, id, gen, bs.blk)
        merged == MergeSubgraph([bs EXCEPT !.blk = cloned.blk], cloned.g)
        dnode == Node(id, "declare", "", gen, role)
        args == {n \in NodeSet(cloned.g) : n.ns = id /\ n.kind = "argument"}
    IN  [merged EXCEPT
            !.blk = SetBlk(@, dnode, block),
            !.g = [nodes |-> GraphAdd(merged.g, dnode).nodes,
                   edges |-> merged.g.edges \cup ArgumentEdges(args, dnode)]]

\* populateComponentNodes never finding a node to reuse.
NeverReusable(id) == FALSE

\* populateComponentNodes, lines 2377-2378: the installed graph has a
\* ComponentNode of that ID.
ReusableComponent(id) ==
    HasID(graph, id) /\ GetByID(graph, id).kind = "component"

\* populateComponentNodes giving up at the first bad block.
StopAtBadBlock(rest) == <<>>

\* populateComponentNodes, `continue` after the diagnostic of a bad block
\* (lines 2371, 2393, 2419): the loop goes on with the next block.
ContinueAfterBadBlock(rest) == rest

\* populateComponentNodes, the loop; `seen` is the key set of blockMap.
RECURSIVE AddComponentNodes(_, _, _, _, _, _)
AddComponentNodes(bs, blocks, seen, templates, gen, role) ==
    IF blocks = <<>> THEN bs
    ELSE
      LET block == Head(blocks)
          id == BlockComponentID(block)
          rest == Tail(blocks)
          seen2 == seen \cup {id}
      IN  IF id \in seen
             THEN AddComponentNodes(AddDiag(bs, Diag("already-declared", id)),
                                    ContinueAfterBadBlock(rest), seen,
                                    templates, gen, role)
          ELSE IF ReusableComponent(id)
             THEN LET c == GetByID(graph, id)
                  IN  AddComponentNodes(
                          [bs EXCEPT !.blk = SetBlk(@, c, block),
                                     !.g = GraphAdd(@, c)],
                          rest, seen2, templates, gen, role)
          ELSE IF block.label = ""
             THEN AddComponentNodes(AddDiag(bs, Diag("no-label", id)),
                                    ContinueAfterBadBlock(rest), seen2,
                                    templates, gen, role)
          ELSE IF block.name \in DOMAIN templates
             THEN AddComponentNodes(
                      InstantiateTemplate(bs, block, id, templates[block.name],
                                          gen, role),
                      rest, seen2, templates, gen, role)
          ELSE IF block.name \notin Registry
             THEN AddComponentNodes(AddDiag(bs, Diag("unrecognized", id)),
                                    ContinueAfterBadBlock(rest), seen2,
                                    templates, gen, role)
          ELSE LET n == Node(id, "component", "", gen, role)
               IN  AddComponentNodes(
                       [bs EXCEPT !.blk = SetBlk(@, n, block),
                                  !.g = GraphAdd(@, n)],
                       rest, seen2, templates, gen, role)

populateComponentNodes(bs, componentBlocks, templates, gen, role) ==
    AddComponentNodes(bs, componentBlocks, {}, templates, gen, role)

\* ComponentReferences(n, g): the nodes of g that n's block references, and
\* one diagnostic per reference to a node g does not have.
ReferencedIDs(bs, n) == BlockOf(bs.blk, n).refs

\* wireGraphEdges: the nodes without a namespace get an edge to every
\* service they depend on and to every node their block references.
RECURSIVE WireNodes(_, _)
WireNodes(bs, nodes) ==
    IF nodes = <<>> THEN bs
    ELSE
      LET n == Head(nodes)
          svcIDs == IF n.kind = "service" THEN ServiceDependsOn(n.id) ELSE {}
          ids == svcIDs \cup ReferencedIDs(bs, n)
          found == {id \in ids : HasID(bs.g, id)}
          missing == SetToSeq(ids \ found)
      IN  IF n.ns # "" THEN WireNodes(bs, Tail(nodes))
          ELSE WireNodes(
                   [bs EXCEPT
                       !.g.edges = @ \cup {<<n, GetByID(bs.g, id)>> : id \in found},
                       !.diags = @ \o [i \in 1..Len(missing) |->
                                          Diag("invalid-reference", missing[i])]],
                   Tail(nodes))

wireGraphEdges(bs) == WireNodes(bs, bs.g.nodes)

\* The end of loadNewGraph: a cycle returns the unreduced graph with the
\* diagnostics; otherwise originalGraph is set and the graph is reduced.
ValidateAndReduce(bs) ==
    IF CycleNodes(bs.g) # {}
       THEN AddDiag(bs, Diag("cycle", ""))
       ELSE [bs EXCEPT !.orig = bs.g, !.g = Reduce(bs.g)]

RECURSIVE loadNewGraph(_, _, _, _, _, _, _, _, _)
RECURSIVE populateDeclareBlockNodes(_, _, _)

\* populateDeclareBlockNodes: every declare block whose body loads without
\* a diagnostic becomes a template.  The result carries the templates.
populateDeclareBlockNodes(bst, declares, gen) ==
    IF declares = <<>> THEN bst
    ELSE
      LET block == Head(declares)
          t == loadNewGraph(SelectSeq(block.body, IsComponentStmt),
                            SelectSeq(block.body, IsConfigStmt),
                            SelectSeq(block.body, IsDeclareStmt),
                            TRUE, TRUE, bst.templates,
                            bst.bs.blk, bst.bs.orig, gen)
          kept == [bst.bs EXCEPT !.blk = t.blk, !.orig = t.orig]
      IN  IF Len(t.diags) > 0
             THEN populateDeclareBlockNodes(
                      [bst EXCEPT !.bs = [kept EXCEPT !.diags = @ \o t.diags]],
                      Tail(declares), gen)
             ELSE populateDeclareBlockNodes(
                      [bs |-> kept,
                       templates |->
                           [l \in DOMAIN bst.templates \cup {block.label} |->
                               IF l = block.label THEN t.g ELSE bst.templates[l]]],
                      Tail(declares), gen)

\* loadNewGraph(args, componentBlocks, configBlocks, declareBlocks, inModule,
\* inDeclare, parent) on a Loader whose nodes point at the blocks `blk` and
\* whose originalGraph is `orig`.
loadNewGraph(cBlocks, cfgBlocks, dBlocks, inModule, inDeclare, parent, blk, orig, gen) ==
    LET role == IF inDeclare THEN "template" ELSE "node"
        bs0 == [g |-> EmptyGraph, diags |-> <<>>, blk |-> blk, orig |-> orig]
        bs1 == IF inDeclare THEN bs0
               ELSE populateServiceNodes(
                        bs0, SelectSeq(cBlocks, IsServiceBlock), gen)
        bs2 == populateConfigBlockNodes(bs1, cfgBlocks, inModule, gen, role)
        sorted == SortDeclareBlocks(dBlocks, SetToSeq(
                      {l \in DOMAIN InDegree(dBlocks) :
                          InDegree(dBlocks)[l] = 0}))
        bs3 == [bs2 EXCEPT !.diags = @ \o sorted.diags]
        bst == populateDeclareBlockNodes([bs |-> bs3, templates |-> parent],
                                         sorted.sortedList, gen)
        bs5 == populateComponentNodes(
                   bst.bs, SelectSeq(cBlocks, IsComponentBlock),
                   bst.templates, gen, role)
    IN  ValidateAndReduce(wireGraphEdges(bs5))

(***************************************************************************)
(* The configurations handed to Apply                                      *)
(***************************************************************************)
CompA(val) == Blk("comp", "a", {}, val)
CompB == Blk("comp", "b", {"comp.a"}, 0)
CompC == Blk("comp", "c", {"comp.a", "comp.b"}, 0)

\* declare "T" { argument "in" {}  comp "pt" { .. argument.in.value .. } }
DeclareT ==
    DeclareBlk("T", <<Blk("argument", "in", {}, 0),
                      Blk("comp", "pt", {"argument.in"}, 1)>>)

Config(name, components, declares) ==
    [name |-> name, components |-> components, declares |-> declares,
     configs |-> <<>>]

\* The file of a module: components and the export blocks of the module.
ModuleConfig(name, components, configs) ==
    [Config(name, components, <<>>) EXCEPT !.configs = configs]

\* a; b references a; c references a and b (the edge c -> a is redundant).
CfgTriangle == Config("triangle", <<CompA(1), CompB, CompC>>, <<>>)
\* c is gone, the service is configured.
CfgPair == Config("pair", <<Blk("svc", "", {}, 0), CompA(0), CompB>>, <<>>)
\* a and b reference each other.
CfgCycle ==
    Config("cycle", <<Blk("comp", "a", {"comp.b"}, 0), CompB>>, <<>>)
\* A block of a type the registry does not know, between valid blocks.
CfgUnknown ==
    Config("unknown", <<CompA(0), Blk("bogus", "x", {}, 0), CompB>>, <<>>)
\* A declare block and one instance of it, fed from a.
CfgDeclare ==
    Config("declare", <<CompA(0), Blk("T", "d", {"comp.a"}, 0)>>, <<DeclareT>>)

\* Between valid blocks: a block without a label, a second block for a, a
\* block of an unknown type and a second block with the ID of that one.
CfgBadBlocks ==
    Config("badblocks", <<CompA(0), Blk("comp", "", {}, 0), CompA(1),
                          Blk("bogus", "x", {}, 0), CompB,
                          Blk("bogus", "x", {}, 1)>>, <<>>)

\* Two blocks for the one service.
CfgTwoServiceBlocks ==
    Config("twoblocks", <<Blk("svc", "", {}, 0), CompA(0),
                          Blk("svc", "", {}, 1)>>, <<>>)

\* Two instances of the declare block.
CfgTwoInstances ==
    Config("instances", <<CompA(0), Blk("T", "d", {"comp.a"}, 0),
                          Blk("T", "e", {"comp.a"}, 0)>>, <<DeclareT>>)

\* A module exporting a's value under two names.
CfgModule ==
    ModuleConfig("module", <<CompA(1)>>,
                 <<Blk("export", "x", {"comp.a"}, 0),
                   Blk("export", "y", {"comp.a"}, 0)>>)

\* a, and four components that each reference a.
CfgStar ==
    Config("star", <<CompA(1), Blk("comp", "b", {"comp.a"}, 0),
                     Blk("comp", "c", {"comp.a"}, 0),
                     Blk("comp", "d", {"comp.a"}, 0),
                     Blk("comp", "e", {"comp.a"}, 0)>>, <<>>)

\* The triangle with a b whose exports do not follow a's.
CfgSteady ==
    Config("steady", <<CompA(1), Blk("fixed", "b", {"comp.a"}, 0),
                       Blk("comp", "c", {"comp.a", "fixed.b"}, 0)>>, <<>>)

\* a fails to build, b is rejected with diagnostics, c is fine.
CfgBroken ==
    Config("broken", <<Blk("broken", "a", {}, 0),
                       Blk("invalid", "b", {"broken.a"}, 0),
                       Blk("comp", "c", {"broken.a", "invalid.b"}, 0)>>, <<>>)

\* a and b stand alone, c references both.
CfgJoin ==
    Config("join", <<CompA(1), Blk("comp", "b", {}, 0),
                     Blk("comp", "c", {"comp.a", "comp.b"}, 0)>>, <<>>)

ApplyConfigs ==
    {CfgTriangle, CfgPair, CfgCycle, CfgUnknown, CfgDeclare}

\* Bound: Apply calls per behaviour.
MaxApplies == 2

\* The values a component exports.
ExportValues == {0, 1}
ExportMod == Cardinality(ExportValues)

(***************************************************************************)
(* Evaluation of a node and the value cache                                *)
(***************************************************************************)
\* valueCache.BuildContext: the cached exports of every component.
BuildContext == cacheExports

\* ComponentNode.Evaluate: the arguments are the block evaluated in the
\* context; the exports a component derives from them are a function of
\* the arguments alone.  A "fixed" component exports the same value
\* whatever its arguments are.
EvalExports(block, ectx) ==
    IF block.name = "fixed" THEN block.val
    ELSE (block.val
            + SeqSum([i \in 1..Len(SetToSeq(block.refs \cap DOMAIN ectx)) |->
                         ectx[SetToSeq(block.refs \cap DOMAIN ectx)[i]]]))
           % ExportMod

ExportsOf(n) == IF n \in DOMAIN nodeExports THEN nodeExports[n] ELSE 0

\* What the node's Evaluate returns: nil, an error, or an error that wraps
\* diagnostics.  A "broken" component fails to build, the arguments of an
\* "invalid" one are rejected with diagnostics.
EvaluateError(block) ==
    IF block.name = "broken" THEN "error"
    ELSE IF block.name = "invalid" THEN "diags"
    ELSE "none"

\* Apply, lines 1962-1974 (and the like for the other kinds of node): the
\* diagnostics of one failed evaluation, the wrapped ones as they are, or
\* one error diagnostic made from the error.
EvaluateDiags(n, err) ==
    IF err = "none" THEN <<>>
    ELSE IF err = "diags" /\ n.kind # "config"
       THEN <<[severity |-> "warn", kind |-> "evaluation", id |-> n.id],
              Diag("evaluation", n.id)>>
    ELSE <<Diag("evaluate-failed", n.id)>>

\* A failed Evaluate leaves the node's exports as they were.
EvaluatedExports(n, block, ectx) ==
    IF EvaluateError(block) = "none" THEN EvalExports(block, ectx)
    ELSE ExportsOf(n)

\* A walk that ends at the first node whose evaluation failed.
WalkStopsAtError(order, idx) == Len(order) + 1

\* Apply, line 2033: the callback returns nil whatever the evaluation did,
\* and the walk goes on with the next node.
WalkAfterError(order, idx) == idx + 1

\* valueCache.CacheExports(id, exports).
CacheExports(cache, id, v) ==
    [i \in DOMAIN cache \cup {id} |-> IF i = id THEN v ELSE cache[i]]

\* valueCache.SyncIDs(ids): entries of other components are dropped.
SyncIDs(cache, ids) == [i \in DOMAIN cache \cap ids |-> cache[i]]

\* postEvaluate: a ComponentNode's exports are cached under its ID.
postEvaluate(cache, n, exports) ==
    IF n.kind = "component" THEN CacheExports(cache, n.id, exports) ELSE cache

\* The nodes whose Evaluate leaves a value behind: the exports of a
\* component, the value of an export block.
HasValue(n) == n.kind \in {"component", "export"}

\* valueCache.CacheModuleExportValue(name, value): the export-change version
\* goes up when the name is new or its value differs from the cached one.
CacheModuleExportValue(me, idx, name, v) ==
    [exports |-> [k \in DOMAIN me \cup {name} |-> IF k = name THEN v ELSE me[k]],
     index |-> IF name \notin DOMAIN me \/ me[name] # v THEN idx + 1 ELSE idx]

\* The post-evaluation step for module exports (Apply lines 2019-2023,
\* concurrentEvalFn lines 2616-2619).
CacheExportNode(me, idx, n, block, v) ==
    IF n.kind = "export" THEN CacheModuleExportValue(me, idx, block.label, v)
    ELSE [exports |-> me, index |-> idx]

\* A worker that notifies without looking at the version again.
UpdateStillNeededAlways == TRUE

\* concurrentEvalFn, line 2626: with the write lock, is the version still
\* not the one the last notification was made for?
UpdateStillNeeded == exportIndex # moduleExportIndex

\* A Loader that never finds its exports changed.
ExportsNeverStale == FALSE

\* Lines 2045 and 2620: a module whose export-change version moved on.
ExportsAreStale == isModule /\ exportIndex # moduleExportIndex

\* The node instances something still points at; the rest is garbage.
Live(g, og, extra) ==
    NodeSet(g) \cup EndPoints(g.edges) \cup NodeSet(og) \cup EndPoints(og.edges)
      \cup extra

Prune(h, live) == [m \in DOMAIN h \cap live |-> h[m]]

(***************************************************************************)
(* Loader.mut (sync.RWMutex): a reader is admitted when no writer holds    *)
(* the lock and none is waiting for it; a writer when nobody holds it.     *)
(***************************************************************************)
\* A lock that lets readers in whatever a writer does.
CanRLockBesideWriter == TRUE

CanRLock == mutWriter = "none" /\ mutWaiting = {}
CanLock == mutWriter = "none" /\ mutReaders = {}

(***************************************************************************)
(* The worker pool (worker.Pool): a bounded queue of keyed tasks and a     *)
(* fixed set of workers.                                                   *)
(***************************************************************************)
WorkerList == <<"w1", "w2">>
Workers == Range(WorkerList)

\* Bound: the capacity of the pool's queue.
QueueCap == 1

WorkerIdle == [pc |-> "idle"]

Busy == {w \in Workers : workers[w].pc # "idle"}

QueuedKeys(q) == {q[i].key : i \in 1..Len(q)}

RunningKeys == {workers[w].node.id : w \in Busy}

\* Pool.SubmitWithKey: a stopped pool takes no task; a key that is already
\* queued is not queued again; a full queue is reported as an error.
SubmitWithKey(q, task) ==
    IF poolStopped THEN [err |-> TRUE, queue |-> q]
    ELSE IF task.key \in QueuedKeys(q) THEN [err |-> FALSE, queue |-> q]
    ELSE IF Len(q) >= QueueCap THEN [err |-> TRUE, queue |-> q]
    ELSE [err |-> FALSE, queue |-> Append(q, task)]

\* A pool that hands out the oldest task whatever its key.
NextTaskAnyKey(q) == IF q = <<>> THEN 0 ELSE 1

\* The task a free worker takes next: the oldest one whose key no worker
\* is running.
NextTask(q) ==
    LET free == {i \in 1..Len(q) : q[i].key \notin RunningKeys}
    IN  IF free = {} THEN 0 ELSE CHOOSE i \in free : \A j \in free : i <= j

RemoveAt(q, i) == SubSeq(q, 1, i - 1) \o SubSeq(q, i + 1, Len(q))

EdIdle == [pc |-> "idle"]

\* The nodes a queued task, a worker or EvaluateDependencies points at.
HeldNodes ==
    {workQueue[i].node : i \in 1..Len(workQueue)}
      \cup {workers[w].node : w \in Busy}
      \cup (IF ed.pc = "idle" THEN {} ELSE Range(ed.batch))
      \cup (IF ed.pc = "submit" THEN Range(ed.pending) ELSE {})

(***************************************************************************)
(* Apply                                                                   *)
(***************************************************************************)
ApIdle == [pc |-> "idle"]

NoApply == [n |-> 0, cfg |-> "", status |-> "none", diags |-> <<>>,
            evaluated |-> <<>>]

\* Apply, line 2036: the nodes that become Loader.componentNodes.
InstalledComponentsKeepOld(evalComponents) == componentNodes \o evalComponents

InstalledComponents(evalComponents) == evalComponents

\* An Apply that keeps the list of services it had.
InstalledServicesKeepOld(evalServices) == serviceNodes

\* Apply, line 2037: the nodes that become Loader.serviceNodes.
InstalledServices(evalServices) == evalServices

\* Apply evaluating the nodes with the most dependencies first.
ApplyWalkOrderMostEdgesFirst(g) ==
    LET out(n) == Cardinality({e \in g.edges : e[1] = n})
    IN  CHOOSE q \in Perms(NodeSet(g)) :
            \A i, j \in 1..Len(q) : i < j => out(q[i]) >= out(q[j])

\* Apply walking the graph the wrong way round.
ApplyWalkOrderReversed(g) == WalkFromRoots(g, <<>>)

\* Apply going on whatever loadNewGraph reported.
ApplyNeverAborts(diags) == FALSE

\* Apply, line 1914: any error diagnostic of loadNewGraph ends the call.
ApplyAborts(diags) == HasErrors(diags)

\* Apply, line 1944: the order in which the full evaluation visits the nodes.
ApplyWalkOrder(g) == WalkTopological(g, <<>>)

\* Apply is called with the blocks of a configuration and blocks in Lock().
ApplyCall(cfg) ==
    /\ ap.pc = "idle"
    /\ applyCount < MaxApplies
    /\ applyCount' = applyCount + 1
    /\ ap' = [pc |-> "lock", cfg |-> cfg.name,
              components |-> Stamp(cfg.components, applyCount + 1),
              declares |-> Stamp(cfg.declares, applyCount + 1),
              configs |-> Stamp(cfg.configs, applyCount + 1),
              pre |-> [graph |-> graph, componentNodes |-> componentNodes,
                       serviceNodes |-> serviceNodes,
                       nodeExports |-> nodeExports, nodeBlock |-> nodeBlock,
                       cfg |-> lastApply.cfg, status |-> lastApply.status,
                       quiet |-> ~changed]]
    /\ changed' = FALSE
    /\ mutWaiting' = mutWaiting \cup {"apply"}
    /\ UNCHANGED <<ptrVars, lokiVars, xrayVars, scrapeVars, poolStopped, waveVars, modVars, concVars, sortVars, loaderVars, mutWriter, mutReaders, lastApply>>

\* Apply gets the lock and runs loadNewGraph; with an error diagnostic it
\* returns at once, otherwise the full evaluation starts.
ApplyLoad ==
    /\ ap.pc = "lock"
    /\ CanLock
    /\ mutWaiting' = mutWaiting \ {"apply"}
    /\ LET r == loadNewGraph(ap.components, ap.configs, ap.declares, isModule,
                             FALSE, <<>>, nodeBlock, originalGraph, applyCount)
       IN  /\ originalGraph' = r.orig
           /\ IF ApplyAborts(r.diags)
                 THEN /\ ap' = ApIdle
                      /\ lastApply' = [n |-> applyCount, cfg |-> ap.cfg,
                                       status |-> "rejected", diags |-> r.diags,
                                       evaluated |-> <<>>, pre |-> ap.pre,
                                       built |-> r.g, blocks |-> r.blk,
                                       quiet |-> FALSE]
                      /\ nodeBlock' = Prune(r.blk, Live(graph, r.orig, HeldNodes))
                      /\ mutWriter' = "none"
                      /\ UNCHANGED moduleExports
                 ELSE /\ ap' = [ap EXCEPT !.pc = "eval"] @@
                               [newGraph |-> r.g, diags |-> r.diags,
                                order |-> ApplyWalkOrder(r.g), idx |-> 1,
                                evalComponents |-> <<>>, evalServices |-> <<>>,
                                ectx |-> <<>>, walked |-> <<>>]
                      /\ nodeBlock' = r.blk
                      /\ mutWriter' = "apply"
                      /\ moduleExports' = <<>>
                      /\ UNCHANGED lastApply
    /\ UNCHANGED <<ptrVars, lokiVars, xrayVars, scrapeVars, poolStopped, waveVars, concVars, sortVars, graph, componentNodes, serviceNodes,
                   nodeExports, cacheExports, mutReaders, applyCount, changed,
                   isModule, exportIndex, moduleExportIndex, notified>>

\* The walk reaches the next node: l.evaluate builds its context and calls
\* its Evaluate.
ApplyEvalBegin ==
    /\ ap.pc = "eval"
    /\ ap.idx <= Len(ap.order)
    /\ ap' = [ap EXCEPT !.pc = "evaluating", !.ectx = BuildContext]
    /\ UNCHANGED <<ptrVars, lokiVars, xrayVars, scrapeVars, poolStopped, waveVars, modVars, concVars, sortVars, loaderVars, mutVars, applyCount, lastApply, changed>>

\* The node's Evaluate returns and postEvaluate caches what it left.
ApplyEvalEnd ==
    /\ ap.pc = "evaluating"
    /\ LET n == ap.order[ap.idx]
           err == EvaluateError(BlockOf(nodeBlock, n))
           exports == IF HasValue(n)
                         THEN EvaluatedExports(n, BlockOf(nodeBlock, n), ap.ectx)
                         ELSE 0
           me == CacheExportNode(moduleExports, exportIndex, n,
                                 BlockOf(nodeBlock, n), exports)
       IN  /\ nodeExports' = IF HasValue(n)
                                THEN SetBlk(nodeExports, n, exports)
                                ELSE nodeExports
           /\ cacheExports' = postEvaluate(cacheExports, n, exports)
           /\ moduleExports' = me.exports
           /\ exportIndex' = me.index
           /\ evalCtx' = SetBlk(evalCtx, n.id, ap.ectx)
           /\ ap' = [ap EXCEPT
                        !.pc = "eval", !.ectx = <<>>,
                        !.idx = IF err = "none" THEN @ + 1
                                ELSE WalkAfterError(ap.order, @),
                        !.walked = Append(@, n),
                        !.diags = @ \o EvaluateDiags(n, err),
                        !.evalComponents =
                            IF n.kind = "component" THEN Append(@, n) ELSE @,
                        !.evalServices =
                            IF n.kind = "service" THEN Append(@, n) ELSE @]
    /\ UNCHANGED <<ptrVars, lokiVars, xrayVars, scrapeVars, poolStopped, concVars, sortVars, graph, originalGraph, componentNodes,
                   serviceNodes, nodeBlock, mutVars, applyCount, lastApply,
                   changed, isModule, moduleExportIndex, notified, updated>>

\* After the walk the new graph and node lists are installed, the cache is
\* synced, a module whose exports changed notifies its parent (lines
\* 2045-2048) and the lock is released.
ApplyInstall ==
    /\ ap.pc = "eval"
    /\ ap.idx > Len(ap.order)
    /\ componentNodes' = InstalledComponents(ap.evalComponents)
    /\ serviceNodes' = InstalledServices(ap.evalServices)
    /\ graph' = ap.newGraph
    /\ cacheExports' = SyncIDs(cacheExports,
                               {n.id : n \in Range(ap.evalComponents)})
    /\ nodeBlock' =
          Prune(nodeBlock, Live(ap.newGraph, originalGraph, HeldNodes))
    /\ nodeExports' =
          Prune(nodeExports, Live(ap.newGraph, originalGraph, HeldNodes))
    /\ lastApply' = [n |-> applyCount, cfg |-> ap.cfg, status |-> "installed",
                     diags |-> ap.diags,
                     evaluated |-> ap.walked,
                     pre |-> ap.pre, built |-> ap.newGraph,
                     blocks |-> nodeBlock,
                     quiet |-> ap.pre.quiet /\ ~changed]
    /\ IF ExportsAreStale
          THEN /\ moduleExportIndex' = exportIndex
               /\ notified' = Append(notified, exportIndex)
          ELSE UNCHANGED <<moduleExportIndex, notified>>
    /\ ap' = ApIdle
    /\ mutWriter' = "none"
    /\ UNCHANGED <<ptrVars, lokiVars, xrayVars, scrapeVars, poolStopped, waveVars, concVars, sortVars, originalGraph, mutReaders, mutWaiting,
                   applyCount, changed, isModule, moduleExports, exportIndex>>

\* A running component changes its exports on its own; the controller will
\* call EvaluateDependencies for it.
ExportsChange ==
    /\ \E c \in Range(componentNodes) :
          /\ nodeExports' =
                SetBlk(nodeExports, c, (ExportsOf(c) + 1) % ExportMod)
          /\ updated' = updated \cup {c}
    /\ changed' = TRUE
    /\ UNCHANGED <<ptrVars, lokiVars, xrayVars, scrapeVars, poolStopped, evalCtx, modVars, concVars, sortVars, graph, originalGraph, componentNodes,
                   serviceNodes, nodeBlock, cacheExports, mutVars, ap,
                   applyCount, lastApply>>

(***************************************************************************)
(* EvaluateDependencies                                                    *)
(***************************************************************************)
\* Bound: EvaluateDependencies calls per behaviour.
MaxEDCalls == 2

NoED == [n |-> 0, found |-> {}, direct |-> {}, settled |-> FALSE,
         submitted |-> {}, skipped |-> {}, failed |-> FALSE,
         cancelled |-> FALSE]

\* EvaluateDependencies, lines 2538-2541: the nodes with an edge to parent
\* in Loader.graph.
Dependants(parent) == IncomingNodes(graph, parent)

\* dependenciesToParentsMap after the loop of lines 2534-2542: every
\* dependant of a component of the batch, with the last such component.
ParentsMap(batch) ==
    [n \in UNION {Dependants(batch[i]) : i \in 1..Len(batch)} |->
        batch[CHOOSE i \in 1..Len(batch) :
                 /\ n \in Dependants(batch[i])
                 /\ \A j \in (i + 1)..Len(batch) : n \notin Dependants(batch[j])]]

\* A list of dependants kept per component of the batch instead of a map.
RECURSIVE PendingOrdersPerParent(_)
PendingOrdersPerParent(batch) ==
    IF batch = <<>> THEN {<<>>}
    ELSE {h \o t : h \in Perms(Dependants(Head(batch))),
                   t \in PendingOrdersPerParent(Tail(batch))}

\* Line 2548: the map is ranged over, in any order.
PendingOrders(batch) == Perms(DOMAIN ParentsMap(batch))

\* A call that leaves the cache as it is.
CacheNoExports(cache, batch) == cache

\* Line 2536 for every component of the batch: the cache is brought in sync
\* with the component's current exports.
RECURSIVE CacheBatchExports(_, _)
CacheBatchExports(cache, batch) ==
    IF batch = <<>> THEN cache
    ELSE CacheBatchExports(
             CacheExports(cache, Head(batch).id, ExportsOf(Head(batch))),
             Tail(batch))

\* The components of the batch whose cached exports are not their exports.
StaleInCache(batch) ==
    {p \in Range(batch) :
        p.id \notin DOMAIN cacheExports \/ cacheExports[p.id] # ExportsOf(p)}

\* A retry loop that does not look at the ctx.
RetryOngoingAlways == TRUE

\* EvaluateDependencies, lines 2556 and 2559: the backoff made from ctx is
\* ongoing until ctx is done.
RetryOngoing == ~ctxCancelled

\* EvaluateDependencies is called for a batch of updated components and
\* blocks in RLock().
EDCall(updatedNodes) ==
    /\ ed.pc = "idle"
    /\ updatedNodes # <<>>
    /\ edCount < MaxEDCalls
    /\ edCount' = edCount + 1
    /\ ed' = [pc |-> "rlock", batch |-> updatedNodes]
    /\ ctxCancelled' = FALSE
    /\ updated' = updated \ Range(updatedNodes)
    /\ UNCHANGED <<ptrVars, lokiVars, xrayVars, scrapeVars, poolStopped, evalCtx, modVars, sortVars, loaderVars, mutVars, applyVars, poolVars, lastED>>

\* With the read lock, the exports of the batch are cached and its
\* dependants are collected in a map, which is then ranged over in any order.
EDCollect ==
    /\ ed.pc = "rlock"
    /\ CanRLock
    /\ mutReaders' = mutReaders \cup {"ed"}
    /\ cacheExports' = CacheBatchExports(cacheExports, ed.batch)
    /\ \E order \in PendingOrders(ed.batch) :
          ed' = [pc |-> "submit", batch |-> ed.batch, pending |-> order,
                 parents |-> ParentsMap(ed.batch),
                 found |-> DOMAIN ParentsMap(ed.batch),
                 direct |-> {n \in NodeSet(graph) :
                               \E p \in Range(ed.batch) :
                                   p.id \in BlockOf(nodeBlock, n).refs},
                 settled |-> lastApply.status = "installed",
                 stale |-> StaleInCache(ed.batch),
                 submitted |-> {}, sent |-> EmptyBag, skipped |-> {},
                 failed |-> FALSE, late |-> FALSE, stopFailed |-> FALSE,
                 again |-> FALSE]
    /\ UNCHANGED <<ptrVars, lokiVars, xrayVars, scrapeVars, poolStopped, waveVars, modVars, sortVars, graph, originalGraph, componentNodes,
                   serviceNodes, nodeBlock, nodeExports, mutWriter,
                   mutWaiting, applyVars, poolVars, edCount, lastED,
                   ctxCancelled>>

\* One pass of the retry loop for the dependant at hand: SubmitWithKey
\* either takes the task, or fails and the backoff waits.
EDSubmit ==
    /\ ed.pc = "submit"
    /\ ed.pending # <<>>
    /\ RetryOngoing
    /\ LET n == Head(ed.pending)
           r == SubmitWithKey(workQueue, [key |-> n.id, node |-> n,
                                      parent |-> ed.parents[n]])
       IN  /\ workQueue' = r.queue
           /\ ed' = IF r.err
                       THEN [ed EXCEPT !.failed = TRUE,
                                       !.late = @ \/ ctxCancelled,
                                       !.stopFailed = @ \/ poolStopped,
                                       !.again = @ \/ (ed.stopFailed /\ poolStopped)]
                       ELSE [ed EXCEPT !.pending = Tail(@),
                                       !.submitted = @ \cup {n},
                                       !.sent = @ (+) SetToBag(
                                           {[node |-> n, parent |-> ed.parents[n]]}),
                                       !.late = @ \/ ctxCancelled,
                                       !.stopFailed = FALSE]
    /\ UNCHANGED <<ptrVars, lokiVars, xrayVars, scrapeVars, poolStopped, waveVars, modVars, sortVars, loaderVars, mutVars, applyVars, workers, edCount,
                   lastED, ctxCancelled>>

\* The backoff is no longer ongoing: the loop for this dependant ends.
EDGiveUp ==
    /\ ed.pc = "submit"
    /\ ed.pending # <<>>
    /\ ~RetryOngoing
    /\ ed' = [ed EXCEPT !.pending = Tail(@),
                        !.skipped = @ \cup {Head(ed.pending)},
                        !.stopFailed = FALSE]
    /\ UNCHANGED <<ptrVars, lokiVars, xrayVars, scrapeVars, poolStopped, waveVars, modVars, sortVars, loaderVars, mutVars, applyVars, poolVars, edCount,
                   lastED, ctxCancelled>>

\* Every dependant was dealt with: the read lock is released on return.
EDReturn ==
    /\ ed.pc = "submit"
    /\ ed.pending = <<>>
    /\ mutReaders' = mutReaders \ {"ed"}
    /\ lastED' = [n |-> edCount, batch |-> ed.batch, sent |-> ed.sent,
                  found |-> ed.found,
                  direct |-> ed.direct, settled |-> ed.settled,
                  submitted |-> ed.submitted, skipped |-> ed.skipped,
                  failed |-> ed.failed, cancelled |-> ctxCancelled]
    /\ ed' = EdIdle
    /\ UNCHANGED <<ptrVars, lokiVars, xrayVars, scrapeVars, poolStopped, waveVars, modVars, sortVars, loaderVars, mutWriter, mutWaiting, applyVars,
                   poolVars, edCount, ctxCancelled>>

\* The caller's ctx is cancelled while the call is in progress.
CancelCtx ==
    /\ ed.pc # "idle"
    /\ ~ctxCancelled
    /\ ctxCancelled' = TRUE
    /\ UNCHANGED <<ptrVars, lokiVars, xrayVars, scrapeVars, poolStopped, waveVars, modVars, sortVars, loaderVars, mutVars, applyVars, poolVars, ed,
                   edCount, lastED>>

(***************************************************************************)
(* A pool worker running concurrentEvalFn                                  *)
(***************************************************************************)
\* A free worker takes a task off the queue; the free workers being all
\* alike, it is the first of them.
WorkerTake(w) ==
    /\ workers[w].pc = "idle"
    /\ \E i \in 1..Len(WorkerList) :
          /\ WorkerList[i] = w
          /\ \A j \in 1..(i - 1) : WorkerList[j] \in Busy
    /\ ~poolStopped
    /\ NextTask(workQueue) # 0
    /\ LET i == NextTask(workQueue)
       IN  /\ workers' = [workers EXCEPT ![w] =
                             [pc |-> "taken", node |-> workQueue[i].node,
                              ectx |-> <<>>]]
           /\ workQueue' = RemoveAt(workQueue, i)
    /\ UNCHANGED <<ptrVars, lokiVars, xrayVars, scrapeVars, poolStopped, waveVars, modVars, sortVars, loaderVars, mutVars, applyVars, edVars>>

\* concurrentEvalFn, lines 2608-2609: the context is built and the node's
\* Evaluate is called, without Loader.mut.
WorkerEvalBegin(w) ==
    /\ workers[w].pc = "taken"
    /\ workers' = [workers EXCEPT ![w].pc = "evaluating",
                                  ![w].ectx = BuildContext]
    /\ UNCHANGED <<ptrVars, lokiVars, xrayVars, scrapeVars, poolStopped, waveVars, modVars, sortVars, loaderVars, mutVars, applyVars, workQueue, edVars>>

\* The node's Evaluate returns; a component whose exports changed reports
\* them to the controller.
WorkerEvalEnd(w) ==
    /\ workers[w].pc = "evaluating"
    /\ LET n == workers[w].node
           exports == EvaluatedExports(n, BlockOf(nodeBlock, n), workers[w].ectx)
       IN  /\ nodeExports' = IF HasValue(n)
                                THEN SetBlk(nodeExports, n, exports)
                                ELSE nodeExports
           /\ evalCtx' = SetBlk(evalCtx, n.id, workers[w].ectx)
           /\ updated' = IF n.kind = "component" /\ exports # ExportsOf(n)
                             THEN updated \cup {n}
                             ELSE updated
    /\ workers' = [workers EXCEPT ![w].pc = "evaluated", ![w].ectx = <<>>]
    /\ UNCHANGED <<ptrVars, lokiVars, xrayVars, scrapeVars, poolStopped, modVars, sortVars, graph, originalGraph, componentNodes,
                   serviceNodes, nodeBlock, cacheExports, mutVars, applyVars,
                   workQueue, edVars>>

\* concurrentEvalFn, lines 2612-2619: with the read lock, postEvaluate
\* caches what the evaluation left, and the value of an export block is
\* cached as a module export.
WorkerPostEvaluate(w) ==
    /\ workers[w].pc = "evaluated"
    /\ CanRLock
    /\ mutReaders' = mutReaders \cup {w}
    /\ cacheExports' =
          postEvaluate(cacheExports, workers[w].node, ExportsOf(workers[w].node))
    /\ LET n == workers[w].node
           me == CacheExportNode(moduleExports, exportIndex, n,
                                 BlockOf(nodeBlock, n), ExportsOf(n))
       IN  /\ moduleExports' = me.exports
           /\ exportIndex' = me.index
    /\ workers' = [workers EXCEPT ![w].pc = "locked"]
    /\ UNCHANGED <<ptrVars, lokiVars, xrayVars, scrapeVars, poolStopped, waveVars, sortVars, graph, originalGraph, componentNodes,
                   serviceNodes, nodeBlock, nodeExports, mutWriter,
                   mutWaiting, applyVars, workQueue, edVars, isModule,
                   moduleExportIndex, notified>>

\* concurrentEvalFn, lines 2620 and 2632: nothing to tell the parent module;
\* the read lock is released and the task ends.
WorkerDone(w) ==
    /\ workers[w].pc = "locked"
    /\ ~ExportsAreStale
    /\ mutReaders' = mutReaders \ {w}
    /\ workers' = [workers EXCEPT ![w] = WorkerIdle]
    /\ UNCHANGED <<ptrVars, lokiVars, xrayVars, scrapeVars, poolStopped, waveVars, modVars, sortVars, loaderVars, mutWriter, mutWaiting, applyVars,
                   workQueue, edVars>>

\* concurrentEvalFn, lines 2620-2623: the version is not the one last
\* notified, so the worker gives up the read lock and blocks in Lock().
WorkerUpgrade(w) ==
    /\ workers[w].pc = "locked"
    /\ ExportsAreStale
    /\ mutReaders' = mutReaders \ {w}
    /\ mutWaiting' = mutWaiting \cup {w}
    /\ workers' = [workers EXCEPT ![w].pc = "upgrade"]
    /\ UNCHANGED <<ptrVars, lokiVars, xrayVars, scrapeVars, poolStopped, waveVars, modVars, sortVars, loaderVars, mutWriter, applyVars,
                   workQueue, edVars>>

\* concurrentEvalFn, lines 2623-2629: with the write lock the worker looks
\* at the version again, notifies if it is still needed, and unlocks.
WorkerNotify(w) ==
    /\ workers[w].pc = "upgrade"
    /\ CanLock
    /\ mutWaiting' = mutWaiting \ {w}
    /\ IF UpdateStillNeeded
          THEN /\ notified' = Append(notified, exportIndex)
               /\ moduleExportIndex' = exportIndex
          ELSE UNCHANGED <<notified, moduleExportIndex>>
    /\ workers' = [workers EXCEPT ![w] = WorkerIdle]
    /\ UNCHANGED <<ptrVars, lokiVars, xrayVars, scrapeVars, poolStopped, waveVars, sortVars, loaderVars, mutWriter, mutReaders, applyVars,
                   workQueue, edVars, isModule, moduleExports, exportIndex>>

\* Cleanup(true), lines 2053-2056: the pool is stopped (Loader.mut is not
\* taken); the tasks still queued are dropped, the running ones finish.
Cleanup ==
    /\ ~poolStopped
    /\ poolStopped' = TRUE
    /\ workQueue' = <<>>
    /\ UNCHANGED <<ptrVars, lokiVars, xrayVars, scrapeVars, sortVars, loaderVars, mutVars, applyVars, workers, edVars,
                   modVars, waveVars>>

(***************************************************************************)
(* scrapePool (component/pyroscope/scrape): the scrape loops of a job      *)
(* follow the target groups that discovery hands to sync.                  *)
(***************************************************************************)
\* Bound: sync and reload calls per behaviour.
MaxSyncs == 3

Hashes == {"h1", "h2"}

\* A target as targetsFromGroup returns it: its hash, its label set (""
\* is the empty one) and its discovered labels.
ScrapeTargets ==
    [hash : Hashes, labels : {"", "l"}, discovered : {"x", "y"}]

\* What targetsFromGroup makes of a group: an error or targets.
GroupResults ==
    {[err |-> TRUE, targets |-> <<>>], [err |-> FALSE, targets |-> <<>>]}
      \cup {[err |-> FALSE, targets |-> <<t>>] : t \in ScrapeTargets}

GroupLists ==
    {<<g>> : g \in GroupResults} \cup {<<g, h>> : g, h \in GroupResults}

\* Arguments: scrape interval, scrape timeout and HTTP client config.
ScrapeArgs(interval, timeout, http) ==
    [interval |-> interval, timeout |-> timeout, http |-> http]

ArgsFirst == ScrapeArgs("i1", "t1", "c1")
ArgsSlower == ScrapeArgs("i2", "t2", "c1")
ArgsOtherClient == ScrapeArgs("i1", "t1", "c2")
ArgsBadClient == ScrapeArgs("i2", "t2", "bad")

ScrapeArguments == {ArgsFirst, ArgsSlower, ArgsOtherClient, ArgsBadClient}

\* commonconfig.NewClientFromConfig: a client of that config, or an error.
NewClientFromConfig(http) ==
    [err |-> http = "bad", client |-> IF http = "bad" THEN "" ELSE http]

\* newScrapePool: the client of the first arguments, no loop.
ScrapeInit ==
    /\ activeTargets = <<>>
    /\ scrapeLoops = <<>>
    /\ synced = [n |-> 0, called |-> FALSE, op |-> "new"]
    /\ scrapePool = [config |-> ArgsFirst,
                     client |-> NewClientFromConfig(ArgsFirst.http).client,
                     mtx |-> "free"]
    /\ loopRun = <<>>

\* A sync that takes every target.
AnyLabels(t) == TRUE

\* sync, line 84: t.Labels().Len() > 0.
HasLabels(t) == t.labels # ""

\* sync, lines 77-88: the targets of the groups that gave no error and that
\* have labels, in order.
RECURSIVE Actives(_)
Actives(groups) ==
    IF groups = <<>> THEN <<>>
    ELSE LET group == Head(groups)
         IN  IF group.err THEN Actives(Tail(groups))
             ELSE SelectSeq(group.targets, HasLabels) \o Actives(Tail(groups))

\* newScrapeLoop: a loop for the target with the pool's client, interval
\* and timeout; it has no goroutine yet.
newScrapeLoop(id, t, pool) ==
    [id |-> id, target |-> t, client |-> pool.client,
     interval |-> pool.config.interval, timeout |-> pool.config.timeout]

NotStarted == [go |-> "none", starts |-> 0, closes |-> 0, stops |-> 0,
               stoppedUnstarted |-> FALSE]

\* scrapeLoop.start: a new graceShut channel and Once, and the goroutine.
StartLoop(st, id) ==
    [st EXCEPT !.loops[id] = "started",
               !.run[id].go = "waiting",
               !.run[id].starts = @ + 1]

\* A stop that closes the channel whatever came before.
CloseAgain(closed) == TRUE

\* scrapeLoop.stop, t.once.Do: the channel is closed by the first stop only.
CloseOnce(closed) == ~closed

\* scrapeLoop.stop(wait) up to the wait: graceShut is closed, once.  On a
\* loop that was never started the channel is nil.
StopLoop(st, id) ==
    IF st.run[id].starts = 0
       THEN [st EXCEPT !.run[id].stoppedUnstarted = TRUE,
                       !.run[id].stops = @ + 1]
    ELSE IF CloseOnce(st.loops[id] = "stopped")
       THEN [st EXCEPT !.loops[id] = "stopped",
                       !.run[id].closes = @ + 1,
                       !.run[id].stops = @ + 1]
       ELSE [st EXCEPT !.run[id].stops = @ + 1]

RECURSIVE StopLoops(_, _)
StopLoops(st, ids) ==
    IF ids = {} THEN st
    ELSE LET id == CHOOSE l \in ids : TRUE
         IN  StopLoops(StopLoop(st, id), ids \ {id})

\* The loop is made, stored under its hash and started.
AddLoop(st, h, loop) ==
    StartLoop(
        [st EXCEPT !.active = [k \in DOMAIN @ \cup {h} |->
                                  IF k = h THEN loop ELSE @[k]],
                   !.run = [l \in DOMAIN @ \cup {loop.id} |->
                               IF l = loop.id THEN NotStarted ELSE @[l]],
                   !.loops = [l \in DOMAIN @ \cup {loop.id} |->
                                 IF l = loop.id THEN "made" ELSE @[l]]],
        loop.id)

\* A sync that replaces the loop of a target it finds again.
ReplaceLoop(st, t, gen) ==
    AddLoop(StopLoop(st, st.active[t.hash].id), t.hash,
            newScrapeLoop([hash |-> t.hash, gen |-> gen], t, scrapePool))

\* sync, line 97: SetDiscoveredLabels on the loop the hash has.
RefreshLoop(st, t, gen) ==
    [st EXCEPT !.active[t.hash].target.discovered = t.discovered]

\* sync, lines 91-99: a loop is made and started for a hash that has none;
\* the loop of a hash that has one gets the discovered labels.
RECURSIVE StartLoops(_, _, _)
StartLoops(st, actives, gen) ==
    IF actives = <<>> THEN st
    ELSE LET t == Head(actives)
             id == [hash |-> t.hash, gen |-> gen]
         IN  IF t.hash \notin DOMAIN st.active
                THEN StartLoops(
                         AddLoop(st, t.hash, newScrapeLoop(id, t, scrapePool)),
                         Tail(actives), gen)
                ELSE StartLoops(RefreshLoop(st, t, gen), Tail(actives), gen)

\* sync, lines 102-111: the loops whose hash is not among the actives are
\* stopped, without waiting for them, and deleted.
RemoveInactive(st, actives) ==
    LET keep == {h \in DOMAIN st.active :
                    \E i \in 1..Len(actives) : h = actives[i].hash}
        gone == {st.active[h].id : h \in DOMAIN st.active \ keep}
    IN  [StopLoops(st, gone) EXCEPT !.active = [h \in keep |-> st.active[h]]]

PoolState == [active |-> activeTargets, loops |-> scrapeLoops, run |-> loopRun]

\* scrapePool.sync(groups), under tg.mtx.
Sync(groups) ==
    /\ synced.n < MaxSyncs
    /\ scrapePool.mtx = "free"
    /\ LET actives == Actives(groups)
           st == RemoveInactive(StartLoops(PoolState, actives, synced.n + 1),
                                actives)
       IN  /\ activeTargets' = st.active
           /\ scrapeLoops' = st.loops
           /\ loopRun' = st.run
    /\ synced' = [n |-> synced.n + 1, called |-> TRUE, op |-> "sync",
                  groups |-> groups]
    /\ UNCHANGED <<scrapePool, sortVars, loaderVars, mutVars, applyVars,
                   concVars, modVars, waveVars, poolStopped, ptrVars, lokiVars, xrayVars>>

\* reload, lines 118-119: interval, timeout and client config are the ones
\* the pool has.
SameArguments(cfg) ==
    /\ scrapePool.config.interval = cfg.interval
    /\ scrapePool.config.timeout = cfg.timeout
    /\ scrapePool.config.http = cfg.http

\* reload, lines 132-138: every loop is stopped, without waiting for it,
\* and a new one for its target is stored and started.
RECURSIVE RestartLoops(_, _, _, _)
RestartLoops(st, hs, pool, gen) ==
    IF hs = {} THEN st
    ELSE LET h == CHOOSE k \in hs : TRUE
             old == st.active[h]
             loop == newScrapeLoop([hash |-> h, gen |-> gen], old.target, pool)
         IN  RestartLoops(AddLoop(StopLoop(st, old.id), h, loop),
                          hs \ {h}, pool, gen)

\* scrapePool.reload(cfg), under tg.mtx.
Reload(cfg) ==
    /\ synced.n < MaxSyncs
    /\ scrapePool.mtx = "free"
    /\ LET made == NewClientFromConfig(cfg.http)
           same == SameArguments(cfg)
           err == ~same /\ made.err
           pool == [scrapePool EXCEPT
                       !.config = cfg,
                       !.client = IF same \/ made.err THEN @ ELSE made.client]
           st == IF same \/ made.err THEN PoolState
                 ELSE RestartLoops(PoolState, DOMAIN activeTargets, pool,
                                   synced.n + 1)
       IN  /\ scrapePool' = pool
           /\ activeTargets' = st.active
           /\ scrapeLoops' = st.loops
           /\ loopRun' = st.run
           /\ synced' = [op |-> "reload", cfg |-> cfg, err |-> err] @@
                            [synced EXCEPT !.n = @ + 1]
    /\ UNCHANGED <<sortVars, loaderVars, mutVars, applyVars, concVars, modVars,
                   waveVars, poolStopped, ptrVars, lokiVars, xrayVars>>

\* scrapePool.stop up to wg.Wait: under tg.mtx, stop(true) is called on
\* every loop in activeTargets, each in a goroutine of its own.
PoolStopCall ==
    /\ synced.n < MaxSyncs
    /\ scrapePool.mtx = "free"
    /\ scrapePool' = [scrapePool EXCEPT !.mtx = "stop"]
    /\ LET st == StopLoops(PoolState,
                           {activeTargets[h].id : h \in DOMAIN activeTargets})
       IN  /\ scrapeLoops' = st.loops
           /\ loopRun' = st.run
    /\ UNCHANGED <<activeTargets, synced, sortVars, loaderVars, mutVars,
                   applyVars, concVars, modVars, waveVars, poolStopped, ptrVars, lokiVars, xrayVars>>

\* scrapePool.stop returns: every stop(true) has seen the goroutine of its
\* loop end (t.wg.Wait), so wg.Wait is over.
PoolStopReturn ==
    /\ scrapePool.mtx = "stop"
    /\ \A h \in DOMAIN activeTargets : loopRun[activeTargets[h].id].go = "done"
    /\ scrapePool' = [scrapePool EXCEPT !.mtx = "free"]
    /\ synced' = [op |-> "stop"] @@ [synced EXCEPT !.n = @ + 1]
    /\ UNCHANGED <<activeTargets, scrapeLoops, loopRun, sortVars, loaderVars,
                   mutVars, applyVars, concVars, modVars, waveVars, poolStopped,
                   ptrVars, lokiVars, xrayVars>>

\* scrapeLoop.start, the goroutine: the timer or the ticker fires and the
\* select takes it (lines 211-225); scrape() begins.
LoopTick(l) ==
    /\ loopRun[l].go = "waiting"
    /\ loopRun' = [loopRun EXCEPT ![l].go = "scraping"]
    /\ UNCHANGED <<activeTargets, scrapeLoops, synced, scrapePool, sortVars,
                   loaderVars, mutVars, applyVars, concVars, modVars, waveVars,
                   poolStopped, ptrVars, lokiVars, xrayVars>>

\* scrape() returns (line 225); the goroutine is back in its select.
LoopScrapeEnd(l) ==
    /\ loopRun[l].go = "scraping"
    /\ loopRun' = [loopRun EXCEPT ![l].go = "waiting"]
    /\ UNCHANGED <<activeTargets, scrapeLoops, synced, scrapePool, sortVars,
                   loaderVars, mutVars, applyVars, concVars, modVars, waveVars,
                   poolStopped, ptrVars, lokiVars, xrayVars>>

\* The select takes the closed graceShut (lines 213-214, 221-222): the
\* goroutine returns.
LoopExit(l) ==
    /\ loopRun[l].go = "waiting"
    /\ scrapeLoops[l] = "stopped"
    /\ loopRun' = [loopRun EXCEPT ![l].go = "done"]
    /\ UNCHANGED <<activeTargets, scrapeLoops, synced, scrapePool, sortVars,
                   loaderVars, mutVars, applyVars, concVars, modVars, waveVars,
                   poolStopped, ptrVars, lokiVars, xrayVars>>

(***************************************************************************)
(* The loki client Manager (component/common/loki/client/manager.go)       *)
(***************************************************************************)
\* The most client configs given to one NewManager call.
MaxClients == 2

\* The most entries sent on Manager.Chan().
MaxEntries == 2

Entries == {"e1", "e2"}

StopCallers == {"s1", "s2"}

ClientConfig(name, ok) == [name |-> name, ok |-> ok]

\* Two configs clients can be made from, and one from which none can.
ClientConfigs ==
    {ClientConfig("a", TRUE), ClientConfig("b", TRUE), ClientConfig("c", FALSE)}

ClientConfigLists ==
    UNION {[1..n -> ClientConfigs] : n \in 0..MaxClients}

\* client.New and client.NewQueue: an error, or a client named after its
\* config.
New(cfg) ==
    [err |-> ~cfg.ok,
     client |-> [kind |-> "client", name |-> cfg.name, stops |-> 0,
                 stoppedNow |-> FALSE]]

NewQueue(cfg) == [err |-> ~cfg.ok]

\* wal.NewWatcher followed by watcher.Start().
StartedWatcher(cfg) ==
    [kind |-> "watcher", name |-> cfg.name, stops |-> 0, stoppedNow |-> FALSE]

\* The loop of NewManager over clientCfgs.  made.created lists what the
\* call made, in order; clients and watchers are positions in it.
RECURSIVE NewManagerLoop(_, _, _)
NewManagerLoop(wal, cfgs, made) ==
    IF cfgs = <<>> THEN made
    ELSE LET cfg == Head(cfgs)
         IN  IF wal
             THEN IF NewQueue(cfg).err
                  THEN [made EXCEPT !.err = TRUE]
                  ELSE LET all == Append(made.created, StartedWatcher(cfg))
                       IN  NewManagerLoop(wal, Tail(cfgs),
                               [made EXCEPT !.created = all,
                                            !.watchers = Append(@, Len(all))])
             ELSE IF New(cfg).err
                  THEN [made EXCEPT !.err = TRUE]
                  ELSE LET all == Append(made.created, New(cfg).client)
                       IN  IF cfg.name \in made.names
                           THEN [made EXCEPT !.err = TRUE, !.created = all]
                           ELSE NewManagerLoop(wal, Tail(cfgs),
                                    [made EXCEPT !.created = all,
                                                 !.names = @ \cup {cfg.name},
                                                 !.clients = Append(@, Len(all))])

NothingMade ==
    [err |-> FALSE, created |-> <<>>, names |-> {}, clients |-> <<>>,
     watchers |-> <<>>]

NoManager ==
    [made |-> "no", wal |-> FALSE, cfgs |-> <<>>, clients |-> <<>>,
     walWatchers |-> <<>>, closed |-> FALSE, closes |-> 0, once |-> FALSE]

NoForwarder == [pc |-> "none", e |-> "none", i |-> 0]

ManagerInit ==
    /\ manager = NoManager
    /\ created = <<>>
    /\ fwd = NoForwarder
    /\ accepted = <<>>
    /\ sends = <<>>
    /\ stopCalls = [k \in StopCallers |-> [pc |-> "idle", j |-> 0]]

\* NewManager(..., walCfg, notifier, clientCfgs...).
NewManager(wal, cfgs) ==
    /\ manager.made = "no"
    /\ LET made == IF Len(cfgs) = 0 THEN [NothingMade EXCEPT !.err = TRUE]
                   ELSE NewManagerLoop(wal, cfgs, NothingMade)
       IN  /\ created' = made.created
           /\ IF made.err
              THEN /\ manager' = [manager EXCEPT !.made = "err", !.wal = wal,
                                                 !.cfgs = cfgs]
                   /\ fwd' = fwd
              ELSE /\ manager' = [manager EXCEPT !.made = "ok", !.wal = wal,
                                                 !.cfgs = cfgs,
                                                 !.clients = made.clients,
                                                 !.walWatchers = made.watchers]
                   /\ fwd' = [NoForwarder EXCEPT !.pc = "recv"]
    /\ UNCHANGED <<accepted, sends, stopCalls, xrayVars, flowVars>>

\* A sender's m.Chan() <- e meets the goroutine's receive from m.entries.
\* startWithConsume drops the entry; startWithForward begins its fan-out.
Accept(e) ==
    /\ manager.made = "ok"
    /\ ~manager.closed
    /\ fwd.pc = "recv"
    /\ Len(accepted) < MaxEntries
    /\ accepted' = Append(accepted, e)
    /\ fwd' = IF manager.wal THEN fwd ELSE [pc |-> "send", e |-> e, i |-> 1]
    /\ UNCHANGED <<manager, created, sends, stopCalls, xrayVars, flowVars>>

SkipClient(i) == i + 2

NextClient(i) == i + 1

\* c.Chan() <- e for the next client of m.clients.
Forward ==
    /\ fwd.pc = "send"
    /\ LET c == manager.clients[fwd.i]
           i == NextClient(fwd.i)
       IN  /\ sends' = Append(sends, [e |-> fwd.e, to |-> c,
                                      late |-> created[c].stops > 0])
           /\ fwd' = IF i > Len(manager.clients)
                     THEN [NoForwarder EXCEPT !.pc = "recv"]
                     ELSE [fwd EXCEPT !.i = i]
    /\ UNCHANGED <<manager, created, accepted, stopCalls, xrayVars, flowVars>>

\* The range over m.entries ends: the channel is closed.
ForwarderExit ==
    /\ fwd.pc = "recv"
    /\ manager.closed
    /\ fwd' = [fwd EXCEPT !.pc = "done"]
    /\ UNCHANGED <<manager, created, accepted, sends, stopCalls, xrayVars,
                   flowVars>>

\* Manager.Stop: m.once.Do(func() { close(m.entries) }).
StopClose(k) ==
    /\ manager.made = "ok"
    /\ stopCalls[k].pc = "idle"
    /\ manager' = IF manager.once THEN manager
                  ELSE [manager EXCEPT !.once = TRUE, !.closed = TRUE,
                                       !.closes = @ + 1]
    /\ stopCalls' = [stopCalls EXCEPT ![k].pc = "wait"]
    /\ UNCHANGED <<created, fwd, accepted, sends, xrayVars, flowVars>>

NoWait(f) == TRUE

\* m.wg.Wait() returns when the goroutine has called wg.Done.
ForwarderExited(f) == f.pc = "done"

StoppedAll(all, ids) ==
    [c \in DOMAIN all |->
        IF c \in Range(ids) THEN [all[c] EXCEPT !.stops = @ + 1] ELSE all[c]]

\* Manager.Stop: m.wg.Wait(), then Stop() on every WAL watcher.
StopWatchers(k) ==
    /\ stopCalls[k].pc = "wait"
    /\ ForwarderExited(fwd)
    /\ created' = StoppedAll(created, manager.walWatchers)
    /\ stopCalls' = [stopCalls EXCEPT ![k] =
                        IF manager.clients = <<>> THEN [pc |-> "done", j |-> 0]
                        ELSE [pc |-> "clients", j |-> 1]]
    /\ UNCHANGED <<manager, fwd, accepted, sends, xrayVars, flowVars>>

\* Manager.Stop: c.Stop() on the next client of m.clients.
StopClient(k) ==
    /\ stopCalls[k].pc = "clients"
    /\ LET j == stopCalls[k].j
       IN  /\ created' = StoppedAll(created, <<manager.clients[j]>>)
           /\ stopCalls' = [stopCalls EXCEPT ![k] =
                               IF j = Len(manager.clients)
                               THEN [pc |-> "done", j |-> 0]
                               ELSE [pc |-> "clients", j |-> j + 1]]
    /\ UNCHANGED <<manager, fwd, accepted, sends, xrayVars, flowVars>>

\* Manager.StopNow: c.StopNow() on every client.
StopNow ==
    /\ manager.made = "ok"
    /\ manager.clients # <<>>
    /\ ~created[manager.clients[1]].stoppedNow
    /\ created' = [c \in DOMAIN created |->
                      IF c \in Range(manager.clients)
                      THEN [created[c] EXCEPT !.stoppedNow = TRUE]
                      ELSE created[c]]
    /\ UNCHANGED <<manager, fwd, accepted, sends, stopCalls, xrayVars,
                   flowVars>>

(***************************************************************************)
(* The xray.metrics component (component/xray/metrics/metrics.go)          *)
(***************************************************************************)
\* The most data points appended to one series.
MaxPoints == 2

\* The label sets of the samples appended, and their values.
SeriesLabels ==
    {[__name__ |-> "up", job |-> "a"], [__name__ |-> "go", job |-> "b"]}

SampleValues == {7}

LabelNames == {"__name__", "job"}

\* labels.Labels.String(): the names and values in name order.
LabelsString(l) == <<"__name__", l.__name__, "job", l.job>>

\* One goroutine per kind of call, and the one of Run.
XrayThreads == {"append", "debugInfo", "summary", "details", "clear", "run"}

XrayIdle == [pc |-> "idle"]

XrayInit ==
    /\ allSeries = <<>>
    /\ cacheMut = [writer |-> "none", readers |-> {}]
    /\ xrayCalls = [t \in XrayThreads |-> IF t = "run" THEN [pc |-> "running"] ELSE XrayIdle]

RECURSIVE SumPoints(_, _)
SumPoints(series, keys) ==
    IF keys = {} THEN 0
    ELSE LET k == CHOOSE x \in keys : TRUE
         IN  series[k].DataPoints + SumPoints(series, keys \ {k})

\* Component.Summarize(ls...): per combination of values of the labels ls,
\* the number of series and of data points.
Summarize(series, ls) ==
    LET Proj(k) == [l \in ls |-> series[k].Labels[l]]
        groups == {Proj(k) : k \in DOMAIN series}
    IN  [g \in groups |->
            LET members == {k \in DOMAIN series : Proj(k) = g}
            IN  [SeriesCount |-> Cardinality(members),
                 DataPointCountTotal |-> SumPoints(series, members)]]

\* Component.Details(matchers): the series whose labels match.
Details(series, matchers) ==
    {series[k] : k \in {x \in DOMAIN series :
        \A l \in DOMAIN matchers : series[x].Labels[l] = matchers[l]}}

XrayLock(t) ==
    /\ cacheMut.writer = "none"
    /\ cacheMut.readers = {}
    /\ cacheMut' = [cacheMut EXCEPT !.writer = t]

XrayRLock(t) ==
    /\ cacheMut.writer = "none"
    /\ cacheMut' = [cacheMut EXCEPT !.readers = @ \cup {t}]

XrayUnlock(t) ==
    cacheMut' = [cacheMut EXCEPT !.writer = IF @ = t THEN "none" ELSE @,
                                 !.readers = @ \ {t}]

\* Run returns: the deferred c.exited.Store(true).
XrayExit ==
    /\ xrayCalls["run"].pc = "running"
    /\ xrayCalls' = [xrayCalls EXCEPT !["run"].pc = "exited"]
    /\ UNCHANGED <<allSeries, cacheMut, lokiVars, flowVars>>

\* The append hook up to c.cacheMut.Lock(); it returns an error when the
\* component has exited.
AppendLock(l, v) ==
    /\ xrayCalls["append"].pc = "idle"
    /\ xrayCalls["run"].pc = "running"
    /\ LabelsString(l) \in DOMAIN allSeries =>
          allSeries[LabelsString(l)].DataPoints < MaxPoints
    /\ XrayLock("append")
    /\ xrayCalls' = [xrayCalls EXCEPT !["append"] = [pc |-> "writing", l |-> l, v |-> v]]
    /\ UNCHANGED <<allSeries, lokiVars, flowVars>>

\* The append hook from the lookup of the series to c.cacheMut.Unlock().
AppendStore ==
    /\ xrayCalls["append"].pc = "writing"
    /\ LET l == xrayCalls["append"].l
           key == LabelsString(l)
           ss == IF key \in DOMAIN allSeries THEN allSeries[key]
                 ELSE [Labels |-> l, LabelsStr |-> key, DataPoints |-> 0,
                       LastValue |-> 0]
       IN  allSeries' = (key :> [ss EXCEPT !.DataPoints = @ + 1,
                                           !.LastValue = xrayCalls["append"].v])
                        @@ allSeries
    /\ XrayUnlock("append")
    /\ xrayCalls' = [xrayCalls EXCEPT !["append"] = XrayIdle]
    /\ UNCHANGED <<lokiVars, flowVars>>

\* DebugInfo up to c.cacheMut.RLock().
DebugInfoLock ==
    /\ xrayCalls["debugInfo"].pc = "idle"
    /\ XrayRLock("debugInfo")
    /\ xrayCalls' = [xrayCalls EXCEPT !["debugInfo"] = [pc |-> "reading"]]
    /\ UNCHANGED <<allSeries, lokiVars, flowVars>>

\* DebugInfo: the two Summarize calls and the Details call, then RUnlock.
DebugInfoRead ==
    /\ xrayCalls["debugInfo"].pc = "reading"
    /\ XrayUnlock("debugInfo")
    /\ xrayCalls' = [xrayCalls EXCEPT !["debugInfo"] =
           [pc |-> "return",
            Metrics |-> Summarize(allSeries, {"__name__"}),
            Jobs |-> Summarize(allSeries, {"job"}),
            Details |-> Details(allSeries, [l \in {"__name__"} |-> "up"])]]
    /\ UNCHANGED <<allSeries, lokiVars, flowVars>>

\* DebugInfo returns di to its caller.
DebugInfoReturn ==
    /\ xrayCalls["debugInfo"].pc = "return"
    /\ xrayCalls' = [xrayCalls EXCEPT !["debugInfo"] = XrayIdle]
    /\ UNCHANGED <<allSeries, cacheMut, lokiVars, flowVars>>

\* The /summary handler enters c.Summarize(ls...).
SummaryBegin(ls) ==
    /\ xrayCalls["summary"].pc = "idle"
    /\ xrayCalls' = [xrayCalls EXCEPT !["summary"] = [pc |-> "reading", ls |-> ls]]
    /\ UNCHANGED <<allSeries, cacheMut, lokiVars, flowVars>>

\* c.Summarize returns to the /summary handler.
SummaryEnd ==
    /\ xrayCalls["summary"].pc = "reading"
    /\ xrayCalls' = [xrayCalls EXCEPT !["summary"] =
           [pc |-> "encode", out |-> Summarize(allSeries, xrayCalls["summary"].ls)]]
    /\ UNCHANGED <<allSeries, cacheMut, lokiVars, flowVars>>

\* The /details handler enters c.Details(ls).
DetailsBegin(matchers) ==
    /\ xrayCalls["details"].pc = "idle"
    /\ xrayCalls' = [xrayCalls EXCEPT !["details"] = [pc |-> "reading", ls |-> matchers]]
    /\ UNCHANGED <<allSeries, cacheMut, lokiVars, flowVars>>

\* c.Details returns to the /details handler.
DetailsEnd ==
    /\ xrayCalls["details"].pc = "reading"
    /\ xrayCalls' = [xrayCalls EXCEPT !["details"] =
           [pc |-> "encode", out |-> Details(allSeries, xrayCalls["details"].ls)]]
    /\ UNCHANGED <<allSeries, cacheMut, lokiVars, flowVars>>

\* The /summary or /details handler writes its response and returns.
HandlerEncode(t) ==
    /\ xrayCalls[t].pc = "encode"
    /\ xrayCalls' = [xrayCalls EXCEPT ![t] = XrayIdle]
    /\ UNCHANGED <<allSeries, cacheMut, lokiVars, flowVars>>

\* The /clear handler up to c.cacheMut.Lock().
ClearLock ==
    /\ xrayCalls["clear"].pc = "idle"
    /\ XrayLock("clear")
    /\ xrayCalls' = [xrayCalls EXCEPT !["clear"] = [pc |-> "writing"]]
    /\ UNCHANGED <<allSeries, lokiVars, flowVars>>

\* The /clear handler: a new map, and the deferred Unlock.
ClearStore ==
    /\ xrayCalls["clear"].pc = "writing"
    /\ allSeries' = <<>>
    /\ XrayUnlock("clear")
    /\ xrayCalls' = [xrayCalls EXCEPT !["clear"] = XrayIdle]
    /\ UNCHANGED <<lokiVars, flowVars>>

(***************************************************************************)
(* The graphs as objects: Loader.graph and Loader.originalGraph are        *)
(* pointers, Clone makes a new object, Reduce works on the object it is    *)
(* given.  heap[a] is the graph at address a.                              *)
(***************************************************************************)
\* NewLoader: two empty graphs; no caller holds a graph.
NoPtr == [graph |-> 1, original |-> 2, got |-> {}, built |-> EmptyGraph]

\* A Clone that hands out the object itself.
GraphCloneShared(h, a) == [heap |-> h, ref |-> a]

\* Graph.Clone: a new object with the nodes and edges of the one at a.
GraphClone(h, a) == [heap |-> Append(h, h[a]), ref |-> Len(h) + 1]

\* dag.Reduce(&g): the object at a loses its redundant edges.
ReduceAt(h, a) == [h EXCEPT ![a] = Reduce(h[a])]

\* loadNewGraph, lines 2115-2121, and Apply, line 2038, on the graph built
\* from a configuration: the snapshot is taken, the working graph is
\* reduced and installed.  The objects of the previous load are garbage.
LoadGraphObject(cfg) ==
    /\ applyCount < MaxApplies
    /\ applyCount' = applyCount + 1
    /\ LET r == loadNewGraph(cfg.components, <<>>, cfg.declares, FALSE, FALSE,
                             <<>>, <<>>, EmptyGraph, applyCount + 1)
           h1 == <<r.orig>>
           g == 1
           c == GraphClone(h1, g)
       IN  /\ heap' = ReduceAt(c.heap, g)
           /\ ptr' = [graph |-> g, original |-> c.ref, got |-> {},
                      built |-> r.orig]
    /\ UNCHANGED <<lokiVars, xrayVars, scrapeVars, sortVars, loaderVars, mutVars, ap, lastApply, changed,
                   concVars, modVars, waveVars, poolStopped>>

\* Graph() and OriginalGraph(): the caller gets a clone.
GetGraph ==
    /\ ptr.got = {}
    /\ \E a \in {ptr.graph, ptr.original} :
          LET c == GraphClone(heap, a)
          IN  /\ heap' = c.heap
              /\ ptr' = [ptr EXCEPT !.got = {c.ref}]
    /\ UNCHANGED <<lokiVars, xrayVars, scrapeVars, sortVars, loaderVars, mutVars, applyVars, concVars, modVars,
                   waveVars, poolStopped>>

\* The caller adds an edge to the graph it got, or removes one.
CallerChangesEdge ==
    /\ \E a \in ptr.got :
          \E from, to \in NodeSet(heap[a]) :
              /\ from # to
              /\ heap[a].edges \in {ptr.built.edges, Reduce(ptr.built).edges}
              /\ heap' = [heap EXCEPT ![a].edges =
                              IF <<from, to>> \in @ THEN @ \ {<<from, to>>}
                              ELSE @ \cup {<<from, to>>}]
    /\ UNCHANGED <<lokiVars, xrayVars, scrapeVars, ptr, sortVars, loaderVars, mutVars, applyVars, concVars,
                   modVars, waveVars, poolStopped>>

LoaderInit ==
    /\ graph = EmptyGraph
    /\ originalGraph = EmptyGraph
    /\ componentNodes = <<>>
    /\ serviceNodes = <<>>
    /\ nodeBlock = <<>>
    /\ nodeExports = <<>>
    /\ cacheExports = <<>>
    /\ mutWriter = "none"
    /\ mutReaders = {}
    /\ mutWaiting = {}
    /\ ap = ApIdle
    /\ applyCount = 0
    /\ lastApply = NoApply
    /\ changed = FALSE
    /\ workQueue = <<>>
    /\ workers = [w \in Workers |-> WorkerIdle]
    /\ ed = EdIdle
    /\ edCount = 0
    /\ lastED = NoED
    /\ ctxCancelled = FALSE
    /\ moduleExports = <<>>
    /\ exportIndex = 0
    /\ moduleExportIndex = 0
    /\ notified = <<>>
    /\ updated = {}
    /\ evalCtx = <<>>
    /\ poolStopped = FALSE
    /\ heap = <<EmptyGraph, EmptyGraph>>
    /\ ptr = NoPtr

\* A Loader made by the root controller: no OnExportsChange.
Init == SortInit /\ LoaderInit /\ ScrapeInit /\ ManagerInit /\ XrayInit /\ isModule = FALSE

\* A Loader made by a module controller.
ModuleInit == SortInit /\ LoaderInit /\ ScrapeInit /\ ManagerInit /\ XrayInit /\ isModule = TRUE

ApplyNext ==
    \/ \E cfg \in ApplyConfigs : ApplyCall(cfg)
    \/ ApplyLoad
    \/ ApplyEvalBegin
    \/ ApplyEvalEnd
    \/ ApplyInstall
    \/ ExportsChange

ApplySpec == Init /\ [][ApplyNext]_vars

(***************************************************************************)
(* Apply on configurations with components whose evaluation fails          *)
(***************************************************************************)
FailingConfigs == {CfgBroken, CfgPair, CfgDeclare}

FailingNext ==
    \/ \E cfg \in FailingConfigs : ApplyCall(cfg)
    \/ ApplyLoad
    \/ ApplyEvalBegin
    \/ ApplyEvalEnd
    \/ ApplyInstall

FailingSpec == Init /\ [][FailingNext]_vars

(***************************************************************************)
(* Apply on configurations with blocks that give no node                   *)
(***************************************************************************)
BadBlockConfigs == {CfgBadBlocks, CfgUnknown, CfgPair, CfgTriangle}

BadBlockNext ==
    \/ \E cfg \in BadBlockConfigs : ApplyCall(cfg)
    \/ ApplyLoad
    \/ ApplyEvalBegin
    \/ ApplyEvalEnd
    \/ ApplyInstall

BadBlockSpec == Init /\ [][BadBlockNext]_vars

(***************************************************************************)
(* Apply on configurations with and without blocks for the service         *)
(***************************************************************************)
ServiceConfigs == {CfgPair, CfgTriangle, CfgTwoServiceBlocks}

ServiceNext ==
    \/ \E cfg \in ServiceConfigs : ApplyCall(cfg)
    \/ ApplyLoad
    \/ ApplyEvalBegin
    \/ ApplyEvalEnd
    \/ ApplyInstall

ServiceSpec == Init /\ [][ServiceNext]_vars

(***************************************************************************)
(* Apply on configurations with instances of a declare block               *)
(***************************************************************************)
DeclareConfigs == {CfgDeclare, CfgTwoInstances, CfgPair}

DeclareNext ==
    \/ \E cfg \in DeclareConfigs : ApplyCall(cfg)
    \/ ApplyLoad
    \/ ApplyEvalBegin
    \/ ApplyEvalEnd
    \/ ApplyInstall

DeclareSpec == Init /\ [][DeclareNext]_vars

(***************************************************************************)
(* The Loader with its callers and the pool running side by side           *)
(***************************************************************************)
EvalConfigs == {CfgTriangle}

Next ==
    \/ \E cfg \in EvalConfigs : ApplyCall(cfg)
    \/ ApplyLoad
    \/ ApplyEvalBegin
    \/ ApplyEvalEnd
    \/ ApplyInstall
    \/ \E parent \in Range(componentNodes) : EDCall(<<parent>>)
    \/ EDCollect
    \/ EDSubmit
    \/ EDGiveUp
    \/ EDReturn
    \/ CancelCtx
    \/ \E w \in Workers :
          \/ WorkerTake(w)
          \/ WorkerEvalBegin(w)
          \/ WorkerEvalEnd(w)
          \/ WorkerPostEvaluate(w)
          \/ WorkerDone(w)

Spec == Init /\ [][Next]_vars

\* The goroutine in EvaluateDependencies keeps running.
LiveSpec == Spec /\ WF_vars(EDGiveUp) /\ WF_vars(EDReturn)

(***************************************************************************)
(* A component with more dependants than the pool has room for             *)
(***************************************************************************)
StarConfigs == {CfgStar}

\* The file is applied, and applied again while EvaluateDependencies waits
\* for room in the queue; the ctx of EvaluateDependencies is never cancelled.
StarNext ==
    \/ \E cfg \in StarConfigs :
          /\ lastApply = NoApply \/ (ed.pc = "submit" /\ ed.failed)
          /\ ApplyCall(cfg)
    \/ ApplyLoad
    \/ ApplyEvalBegin
    \/ ApplyEvalEnd
    \/ ApplyInstall
    \/ \E parent \in Range(componentNodes) : EDCall(<<parent>>)
    \/ EDCollect
    \/ EDSubmit
    \/ EDReturn
    \/ \E w \in Workers :
          \/ WorkerTake(w)
          \/ WorkerEvalBegin(w)
          \/ WorkerEvalEnd(w)
          \/ WorkerPostEvaluate(w)
          \/ WorkerDone(w)

StarSpec == Init /\ [][StarNext]_vars

(***************************************************************************)
(* The wave of re-evaluations after a component changed its exports        *)
(***************************************************************************)
WaveConfigs == {CfgSteady}

\* The file is applied once; a component changes its exports when the
\* controller has nothing left to pass on, and the controller calls
\* EvaluateDependencies for the components that reported new exports.
WaveNext ==
    \/ \E cfg \in WaveConfigs : lastApply = NoApply /\ ApplyCall(cfg)
    \/ ApplyLoad
    \/ ApplyEvalBegin
    \/ ApplyEvalEnd
    \/ ApplyInstall
    \/ updated = {} /\ ExportsChange
    \/ \E parent \in updated : EDCall(<<parent>>)
    \/ EDCollect
    \/ EDSubmit
    \/ EDReturn
    \/ \E w \in Workers :
          \/ WorkerTake(w)
          \/ WorkerEvalBegin(w)
          \/ WorkerEvalEnd(w)
          \/ WorkerPostEvaluate(w)
          \/ WorkerDone(w)

WaveSpec == Init /\ [][WaveNext]_vars

(***************************************************************************)
(* The Loader being shut down while it is in use                           *)
(***************************************************************************)
CleanupNext ==
    \/ \E cfg \in EvalConfigs : lastApply = NoApply /\ ApplyCall(cfg)
    \/ ApplyLoad
    \/ ApplyEvalBegin
    \/ ApplyEvalEnd
    \/ ApplyInstall
    \/ \E parent \in Range(componentNodes) : EDCall(<<parent>>)
    \/ EDCollect
    \/ EDSubmit
    \/ EDGiveUp
    \/ EDReturn
    \/ CancelCtx
    \/ Cleanup
    \/ \E w \in Workers :
          \/ WorkerTake(w)
          \/ WorkerEvalBegin(w)
          \/ WorkerEvalEnd(w)
          \/ WorkerPostEvaluate(w)
          \/ WorkerDone(w)

CleanupSpec == Init /\ [][CleanupNext]_vars

(***************************************************************************)
(* EvaluateDependencies called with batches of components                  *)
(***************************************************************************)
BatchConfigs == {CfgJoin}

\* The batches the controller passes: one component, or two of them.
Batches ==
    {<<p>> : p \in Range(componentNodes)}
      \cup {pq \in Range(componentNodes) \X Range(componentNodes) :
               pq[1] # pq[2]}

\* The file is applied once, a component changes its exports when the
\* controller has nothing left to pass on, and the controller calls
\* EvaluateDependencies with a ctx it does not cancel.
BatchNext ==
    \/ \E cfg \in BatchConfigs : lastApply = NoApply /\ ApplyCall(cfg)
    \/ ApplyLoad
    \/ ApplyEvalBegin
    \/ ApplyEvalEnd
    \/ ApplyInstall
    \/ updated = {} /\ ExportsChange
    \/ \E batch \in Batches : Range(batch) \cap updated # {} /\ EDCall(batch)
    \/ EDCollect
    \/ EDSubmit
    \/ EDReturn
    \/ \E w \in Workers :
          \/ WorkerTake(w)
          \/ WorkerEvalBegin(w)
          \/ WorkerEvalEnd(w)
          \/ WorkerPostEvaluate(w)
          \/ WorkerDone(w)

BatchSpec == Init /\ [][BatchNext]_vars

(***************************************************************************)
(* The scrape pool and its callers                                         *)
(***************************************************************************)
ScrapeNext ==
    \/ \E groups \in GroupLists : Sync(groups)
    \/ \E cfg \in ScrapeArguments : Reload(cfg)

ScrapeSpec == Init /\ [][ScrapeNext]_vars

(***************************************************************************)
(* The scrape pool with the goroutines of its loops                        *)
(***************************************************************************)
LabelledTarget(h) == [hash |-> h, labels |-> "l", discovered |-> "x"]

LoopGroupLists ==
    {<<[err |-> FALSE, targets |-> <<>>]>>,
     <<[err |-> FALSE, targets |-> <<LabelledTarget("h1")>>]>>,
     <<[err |-> FALSE, targets |-> <<LabelledTarget("h1")>>],
       [err |-> FALSE, targets |-> <<LabelledTarget("h2")>>]>>}

LoopNext ==
    \/ \E groups \in LoopGroupLists : Sync(groups)
    \/ \E cfg \in {ArgsFirst, ArgsSlower} : Reload(cfg)
    \/ PoolStopCall
    \/ PoolStopReturn
    \/ \E l \in DOMAIN loopRun :
          \/ LoopTick(l)
          \/ LoopScrapeEnd(l)
          \/ LoopExit(l)

LoopSpec == Init /\ [][LoopNext]_vars

(***************************************************************************)
(* The loki client Manager with its goroutine and the callers of Stop      *)
(***************************************************************************)
ManagerNext ==
    \/ \E wal \in BOOLEAN, cfgs \in ClientConfigLists : NewManager(wal, cfgs)
    \/ \E e \in Entries : Accept(e)
    \/ Forward
    \/ ForwarderExit
    \/ \E k \in StopCallers :
          \/ StopClose(k)
          \/ StopWatchers(k)
          \/ StopClient(k)
    \/ StopNow

ManagerSpec == Init /\ [][ManagerNext]_vars

(***************************************************************************)
(* The xray.metrics component with its callers                             *)
(***************************************************************************)
XrayNext ==
    \/ \E l \in SeriesLabels, v \in SampleValues : AppendLock(l, v)
    \/ AppendStore
    \/ DebugInfoLock
    \/ DebugInfoRead
    \/ \E ls \in SUBSET LabelNames : SummaryBegin(ls)
    \/ SummaryEnd
    \/ \E l \in LabelNames, v \in {"up", "a"} : DetailsBegin([x \in {l} |-> v])
    \/ DetailsEnd
    \/ \E t \in {"summary", "details"} : HandlerEncode(t)
    \/ DebugInfoReturn
    \/ ClearLock
    \/ ClearStore
    \/ XrayExit

XraySpec == Init /\ [][XrayNext]_vars

(***************************************************************************)
(* The graphs handed out to callers                                        *)
(***************************************************************************)
CloneConfigs == {CfgTriangle, CfgJoin}

CloneNext ==
    \/ \E cfg \in CloneConfigs : LoadGraphObject(cfg)
    \/ GetGraph
    \/ CallerChangesEdge

CloneSpec == Init /\ [][CloneNext]_vars

(***************************************************************************)
(* The Loader of a module: its exports are reported to the parent          *)
(***************************************************************************)
ModuleConfigs == {CfgModule}

\* The module is loaded, its component changes its exports once the first
\* exports were reported, and the file is applied again while a worker
\* waits to report.

ModuleNext ==
    \/ \E cfg \in ModuleConfigs :
          /\ lastApply = NoApply \/ \E w \in Workers : workers[w].pc = "upgrade"
          /\ ApplyCall(cfg)
    \/ ApplyLoad
    \/ ApplyEvalBegin
    \/ ApplyEvalEnd
    \/ ApplyInstall
    \/ notified = <<exportIndex>> /\ ~changed /\ ExportsChange
    \/ \E parent \in updated : EDCall(<<parent>>)
    \/ EDCollect
    \/ EDSubmit
    \/ EDReturn
    \/ \E w \in Workers :
          \/ WorkerTake(w)
          \/ WorkerEvalBegin(w)
          \/ WorkerEvalEnd(w)
          \/ WorkerPostEvaluate(w)
          \/ WorkerDone(w)
          \/ WorkerUpgrade(w)
          \/ WorkerNotify(w)

ModuleSpec == ModuleInit /\ [][ModuleNext]_vars

(***************************************************************************)
(* SortDeclareBlocks on its own: the caller builds an input, then calls    *)
(***************************************************************************)
TotalStmts(blocks) == SeqSum([i \in 1..Len(blocks) |-> Len(blocks[i].body)])

\* The caller adds one more declare block to the input.
AddDeclareBlock ==
    /\ sortResult = NotCalled
    /\ Len(declareBlocks) < MaxDecl
    /\ \E l \in Labels :
          declareBlocks' = Append(declareBlocks, [label |-> l, body |-> <<>>])
    /\ UNCHANGED <<ptrVars, lokiVars, xrayVars, scrapeVars, poolStopped, waveVars, modVars, sortResult, loaderVars, mutVars, applyVars, concVars>>

\* The caller adds one more statement to the body of the last block.
AddStatement ==
    /\ sortResult = NotCalled
    /\ declareBlocks # <<>>
    /\ TotalStmts(declareBlocks) < MaxStmts
    /\ \E st \in TopStmts :
          declareBlocks' =
              [declareBlocks EXCEPT ![Len(declareBlocks)].body = Append(@, st)]
    /\ UNCHANGED <<ptrVars, lokiVars, xrayVars, scrapeVars, poolStopped, waveVars, modVars, sortResult, loaderVars, mutVars, applyVars, concVars>>

CallSortDeclareBlocks ==
    /\ sortResult = NotCalled
    /\ \E q \in InitialQueues(declareBlocks) :
          sortResult' = SortDeclareBlocks(declareBlocks, q)
    /\ UNCHANGED <<ptrVars, lokiVars, xrayVars, scrapeVars, poolStopped, waveVars, modVars, declareBlocks, loaderVars, mutVars, applyVars, concVars>>

SortNext == AddDeclareBlock \/ AddStatement \/ CallSortDeclareBlocks

SortSpec == Init /\ [][SortNext]_vars

(***************************************************************************)
(* Claims about SortDeclareBlocks                                          *)
(***************************************************************************)
\* The block names used in a body, nested declare bodies included.
RECURSIVE NamesIn(_)
NamesIn(body) ==
    UNION {IF body[i].kind = "declare" THEN NamesIn(body[i].body)
           ELSE IF body[i].kind = "block" THEN {body[i].name}
           ELSE {} : i \in 1..Len(body)}

DeclaredLabels == {declareBlocks[i].label : i \in 1..Len(declareBlocks)}

\* x references y: a declare block labelled x uses y as a block name.
References(x, y) ==
    /\ y \in DeclaredLabels
    /\ \E i \in 1..Len(declareBlocks) :
          declareBlocks[i].label = x /\ y \in NamesIn(declareBlocks[i].body)

\* The labels reachable from x over References in at least one step.
RECURSIVE ReachFrom(_, _)
ReachFrom(frontier, seen) ==
    LET next == {y \in DeclaredLabels : \E x \in frontier : References(x, y)}
    IN  IF next \subseteq seen THEN seen ELSE ReachFrom(next, seen \cup next)

OnCycle(x) == x \in ReachFrom({x}, {})

DistinctLabels == Cardinality(DeclaredLabels) = Len(declareBlocks)

PositionOf(label, sorted) ==
    CHOOSE i \in 1..Len(sorted) : sorted[i].label = label

\* C9: for declare blocks with pairwise distinct labels and an acyclic
\* reference relation, SortDeclareBlocks returns every input block exactly
\* once, with no diagnostic, and every block after each declare block whose
\* label its body (nested declare bodies included) uses as a block name.
C9_SortRespectsReferences ==
    (sortResult.called /\ DistinctLabels /\ \A l \in DeclaredLabels : ~OnCycle(l))
      => /\ sortResult.diags = <<>>
         /\ Len(sortResult.sortedList) = Len(declareBlocks)
         /\ Range(sortResult.sortedList) = Range(declareBlocks)
         /\ \A x, y \in DeclaredLabels :
               References(x, y) =>
                   PositionOf(y, sortResult.sortedList)
                     < PositionOf(x, sortResult.sortedList)

\* C9 witness: three blocks sorted, one of which names the same label twice,
\* once of them inside a nested declare, and is itself named by another.
C9_Witness ==
    /\ sortResult.called /\ DistinctLabels
    /\ \A l \in DeclaredLabels : ~OnCycle(l)
    /\ Len(sortResult.sortedList) = 3
    /\ \E i, j \in 1..Len(declareBlocks) :
          /\ declareBlocks[i].body =
                 <<NestedDeclare(<<BlockStmt("a")>>), BlockStmt("a")>>
          /\ References(declareBlocks[j].label, declareBlocks[i].label)

\* C10: when the reference relation among the declare labels has a cycle
\* (a block naming its own label included), SortDeclareBlocks returns no
\* ordering and exactly one error diagnostic; its unresolved labels are in
\* ascending order and include every label on a cycle; for "a references b,
\* b references a" they are <<a, b>>.
C10_CycleReported ==
    (sortResult.called /\ \E l \in DeclaredLabels : OnCycle(l))
      => /\ sortResult.isNil /\ sortResult.sortedList = <<>>
         /\ Len(sortResult.diags) = 1
         /\ sortResult.diags[1].severity = "error"
         /\ LET u == sortResult.diags[1].unresolved
            IN  /\ \A i \in 1..(Len(u) - 1) : StrRank(u[i]) < StrRank(u[i + 1])
                /\ \A l \in DeclaredLabels : OnCycle(l) => l \in Range(u)
                /\ declareBlocks = << [label |-> "a", body |-> <<BlockStmt("b")>>],
                                      [label |-> "b", body |-> <<BlockStmt("a")>>] >>
                      => u = <<"a", "b">>

\* C10 witness: the two-block cycle of the claim has been sorted.
C10_Witness ==
    /\ sortResult.called
    /\ declareBlocks = << [label |-> "a", body |-> <<BlockStmt("b")>>],
                          [label |-> "b", body |-> <<BlockStmt("a")>>] >>
    /\ sortResult.diags # <<>>

(***************************************************************************)
(* Claims about Apply                                                      *)
(***************************************************************************)
ConfigNamed(name) == CHOOSE c \in ApplyConfigs : c.name = name

LastConfig == ConfigNamed(lastApply.cfg)

ApplyFinished == lastApply.status # "none"

\* No Apply call is between loadNewGraph and its return.
NoApplyRunning == ap.pc \in {"idle", "lock"}

\* Two component blocks of the configuration reference each other.
HasReferenceCycle(cfg) ==
    \E i, j \in 1..Len(cfg.components) :
        /\ i # j
        /\ BlockComponentID(cfg.components[i]) \in cfg.components[j].refs
        /\ BlockComponentID(cfg.components[j]) \in cfg.components[i].refs

\* The IDs of the components the blocks of a configuration describe: the
\* component blocks at top level, and the component blocks of a declare
\* body under every block that instantiates that declare.
DescribedComponentIDs(cfg) ==
    LET declared == {cfg.declares[i].label : i \in 1..Len(cfg.declares)}
        top == {b \in Range(cfg.components) : ~IsServiceBlock(b)}
    IN  {BlockComponentID(b) : b \in {t \in top : t.name \notin declared}}
          \cup UNION {
               {BlockComponentID(b) \o "." \o BlockComponentID(st) :
                    st \in {x \in Range(d.body) : IsComponentStmt(x)}} :
               <<b, d>> \in {p \in top \X Range(cfg.declares) :
                                p[1].name = p[2].label}}

\* C3: an Apply whose component blocks reference each other in a cycle
\* returns an error diagnostic, evaluates no node, and leaves Graph(),
\* Components() and Services() as they were before the call.
C3_CycleLeavesGraph ==
    (ApplyFinished /\ HasReferenceCycle(LastConfig))
      => /\ HasErrors(lastApply.diags)
         /\ lastApply.evaluated = <<>>
         /\ graph = lastApply.pre.graph
         /\ componentNodes = lastApply.pre.componentNodes
         /\ serviceNodes = lastApply.pre.serviceNodes

\* C3 witness: a cyclic configuration was applied over an installed graph.
C3_Witness ==
    /\ ApplyFinished /\ HasReferenceCycle(LastConfig)
    /\ lastApply.status = "rejected"
    /\ lastApply.pre.graph.nodes # <<>>
    /\ lastApply.pre.componentNodes # <<>>

\* C4 (as claimed): in an Apply with one block of an unrecognized type next
\* to valid blocks, that block yields exactly one diagnostic and the valid
\* blocks are added to the graph and evaluated in that same Apply.
C4_UnknownTypeIsolated ==
    (ApplyFinished /\ lastApply.cfg = "unknown")
      => /\ Len(lastApply.diags) = 1
         /\ \A id \in {"comp.a", "comp.b"} :
               /\ HasID(lastApply.built, id)
               /\ \E i \in 1..Len(lastApply.evaluated) :
                     lastApply.evaluated[i].id = id

\* C5: across two consecutive successful Apply calls a component ID that
\* was a ComponentNode of the installed graph and is described again by the
\* new blocks (at top level or in an instantiated declare) is the same
\* ComponentNode instance in the new graph, pointing at the new block.
C5_SameInstanceNewBlock ==
    (lastApply.status = "installed" /\ lastApply.pre.status = "installed"
       /\ NoApplyRunning)
      => \A old \in NodeSet(lastApply.pre.graph) :
            (old.kind = "component"
               /\ old.id \in DescribedComponentIDs(LastConfig))
              => /\ old \in NodeSet(graph)
                 /\ \A n \in NodeSet(graph) : n.id = old.id => n = old
                 /\ old \in Range(componentNodes)
                 /\ BlockOf(nodeBlock, old).gen = lastApply.n

\* C5 witness: the second Apply kept a top-level component and a component
\* inside the namespace of a declare instance.
C5_Witness ==
    /\ lastApply.status = "installed" /\ lastApply.pre.status = "installed"
    /\ NoApplyRunning
    /\ \E o1, o2 \in NodeSet(lastApply.pre.graph) \cap NodeSet(graph) :
          /\ o1.kind = "component" /\ o1.ns = ""
          /\ o2.kind = "component" /\ o2.ns # ""
          /\ {o1.id, o2.id} \subseteq DescribedComponentIDs(LastConfig)

\* C6: after a successful Apply, Components() holds exactly the components
\* the new blocks describe, once each, and so does Graph(): a component of
\* an earlier Apply that the new blocks do not describe is in neither.
C6_OnlyDescribedComponents ==
    lastApply.status = "installed"
      => /\ {n.id : n \in Range(componentNodes)}
               = DescribedComponentIDs(LastConfig)
         /\ Cardinality(Range(componentNodes)) = Len(componentNodes)
         /\ Cardinality({n.id : n \in Range(componentNodes)})
               = Len(componentNodes)
         /\ Range(componentNodes)
               = {n \in NodeSet(graph) : n.kind = "component"}

\* C6 witness: a component of the previous Apply is gone after this one.
C6_Witness ==
    /\ lastApply.status = "installed"
    /\ \E old \in Range(lastApply.pre.componentNodes) :
          /\ old.id \notin DescribedComponentIDs(LastConfig)
          /\ old \notin Range(componentNodes)

\* C7: when a configuration is applied twice in a row and no component
\* changed its exports on its own since the first of the two calls, every
\* component has after the second Apply, for as long as nothing else
\* happens, the exports it had after the first.
C7_ApplyTwiceSameExports ==
    (lastApply.status = "installed" /\ lastApply.pre.status = "installed"
       /\ lastApply.pre.cfg = lastApply.cfg
       /\ lastApply.quiet /\ ~changed /\ ap.pc = "idle")
      => \A n \in Range(componentNodes) :
            /\ n \in DOMAIN lastApply.pre.nodeExports
            /\ ExportsOf(n) = lastApply.pre.nodeExports[n]

\* C7 witness: a configuration whose exports are not all zero was applied
\* twice in a row without any other change.
C7_Witness ==
    /\ lastApply.status = "installed" /\ lastApply.pre.status = "installed"
    /\ lastApply.pre.cfg = lastApply.cfg
    /\ lastApply.quiet /\ ~changed /\ ap.pc = "idle"
    /\ \E n, m \in Range(componentNodes) :
          ExportsOf(n) # 0 /\ BlockOf(nodeBlock, m).refs # {} /\ ExportsOf(m) # 0

(***************************************************************************)
(* Claims about EvaluateDependencies and concurrentEvalFn                  *)
(***************************************************************************)
\* The executions of n.Evaluate in progress.
EvaluateInProgress(n) ==
    {w \in Workers : workers[w].pc = "evaluating" /\ workers[w].node = n}
      \cup (IF ap.pc = "evaluating" /\ ap.order[ap.idx] = n
               THEN {"apply"} ELSE {})

\* C1 (as claimed): an EvaluateDependencies call for a component of the
\* installed configuration, run to its end with a live ctx, has submitted
\* exactly the nodes whose blocks reference that component, that is its
\* direct dependants in the graph before reduction.
C1_SubmitsDirectDependants ==
    (lastED.n > 0 /\ lastED.settled /\ ~lastED.cancelled)
      => lastED.submitted = lastED.direct

\* C2 (as claimed): at any time at most one execution of n.Evaluate is in
\* progress for every node n, be it started by Apply or by concurrentEvalFn.
C2_EvaluateNeverOverlaps ==
    \A n \in HeldNodes \cup NodeSet(graph) :
        Cardinality(EvaluateInProgress(n)) <= 1

\* C8: once the ctx of EvaluateDependencies is cancelled no submission is
\* attempted any more, the pool's queue gets no new task, and the call,
\* whatever the queue does, gives up on the remaining dependants and
\* returns.
C8_StopsRetryingOnCancel ==
    /\ [](ed.pc = "submit" => ~ed.late)
    /\ [][(ed.pc = "submit" /\ ctxCancelled)
            => Len(workQueue') <= Len(workQueue)]_vars
    /\ ((ed.pc = "submit" /\ ctxCancelled) ~> ed.pc = "idle")

\* C8 witness: a call whose every submission failed on the full queue
\* returned after its ctx was cancelled, leaving a dependant unsubmitted.
C8_Witness ==
    /\ lastED.n > 0
    /\ lastED.cancelled /\ lastED.failed
    /\ lastED.submitted = {}
    /\ lastED.skipped # {}

(***************************************************************************)
(* Claims about the worker pool                                            *)
(***************************************************************************)
\* C11: two tasks submitted under one key never execute at the same time:
\* no two workers are busy with one key, and a worker that starts a task
\* starts it while no other worker is busy with that key, so after the
\* earlier execution has ended and left its results.
C11_OneExecutionPerKey ==
    /\ [](\A w, v \in Busy :
             workers[w].node.id = workers[v].node.id => w = v)
    /\ [][\A w \in Workers :
             (workers[w].pc = "idle" /\ workers'[w].pc = "taken")
               => \A v \in Busy : workers[v].node.id # workers'[w].node.id]_vars

\* C11 witness: a task is queued under the key a worker is busy with, and
\* another worker is free.
C11_Witness ==
    \E w \in Busy :
        /\ workers[w].node.id \in QueuedKeys(workQueue)
        /\ Workers \ Busy # {}

\* C12: in a module, OnExportsChange is called at most once for each value
\* of the cache's export-change version: the versions it was called for are
\* all different, also when two workers both found the version stale under
\* the read lock.
C12_OneNotificationPerVersion ==
    \A i, j \in 1..Len(notified) : notified[i] = notified[j] => i = j

\* A worker waits for the write lock to notify although another one has
\* notified for the current version meanwhile.
C12_Witness ==
    /\ notified # <<>>
    /\ \E w \in Workers :
          /\ workers[w].pc = "upgrade"
          /\ exportIndex = moduleExportIndex
          /\ notified[Len(notified)] = exportIndex

\* C13: EvaluateDependencies retrying against a full queue with the read
\* lock held cannot deadlock: with a ctx that is never cancelled there is no
\* state in which the submission at hand fails for lack of queue space while
\* every worker has finished its evaluation and is blocked in RLock() behind
\* a writer waiting in Lock().
C13_NoLockQueueDeadlock ==
    ~ /\ ed.pc = "submit"
      /\ ed.pending # <<>>
      /\ ~ctxCancelled
      /\ SubmitWithKey(workQueue, [key |-> Head(ed.pending).id]).err
      /\ mutWaiting # {}
      /\ \A w \in Workers : workers[w].pc = "evaluated"

\* No task is queued or running, no call is in progress and every change of
\* exports was passed to EvaluateDependencies.
WaveQuiesced ==
    /\ workQueue = <<>>
    /\ Busy = {}
    /\ ed.pc = "idle"
    /\ ap.pc = "idle"
    /\ updated = {}
    /\ ~ctxCancelled

\* C14: once the wave after a change of exports has quiesced, every node
\* whose block references a component directly was last evaluated with a
\* context that holds the component's current exports, whether or not the
\* exports of a node in between changed.
C14_DirectReferrersSawNewExports ==
    WaveQuiesced =>
        \A p \in Range(componentNodes) :
            \A n \in NodeSet(graph) :
                p.id \in BlockOf(nodeBlock, n).refs
                  => /\ n.id \in DOMAIN evalCtx
                     /\ p.id \in DOMAIN evalCtx[n.id]
                     /\ evalCtx[n.id][p.id] = ExportsOf(p)

\* C15: whenever no Apply is in progress, Graph() and OriginalGraph() have
\* the same nodes and the edges of Graph() are the transitive reduction of
\* the edges of OriginalGraph(); also after an Apply that returned error
\* diagnostics, and with declare blocks.
C15_GraphIsReducedOriginal ==
    ap.pc = "idle" =>
        /\ NodeSet(graph) = NodeSet(originalGraph)
        /\ graph.edges = Reduce(originalGraph).edges

\* C16: when Apply returned error diagnostics without installing, every
\* node of the graph that is still installed has the block it had before the
\* call: no ComponentNode points at a block of the rejected configuration
\* and no ServiceNode had its block reset to nil.
C16_RejectedApplyKeepsBlocks ==
    (ap.pc = "idle" /\ lastApply.status = "rejected") =>
        \A n \in NodeSet(graph) :
            BlockOf(nodeBlock, n) = BlockOf(lastApply.pre.nodeBlock, n)

\* C17: while Apply holds the lock, no worker is in its post-evaluation
\* step or enters it, and EvaluateDependencies neither has cached exports
\* and looked up dependants nor does so: both need the read lock.
C17_ApplyExcludesReaders ==
    /\ [](mutWriter = "apply" =>
             /\ \A w \in Workers : workers[w].pc # "locked"
             /\ ed.pc # "submit")
    /\ [][mutWriter = "apply" =>
             /\ \A w \in Workers :
                    workers'[w].pc = "locked" => workers[w].pc = "locked"
             /\ ed'.pc = "submit" => ed.pc = "submit"]_vars

\* Apply holds the lock while a worker has finished its evaluation and an
\* EvaluateDependencies call has started: both wait in RLock().
C17_Witness ==
    /\ mutWriter = "apply"
    /\ ed.pc = "rlock"
    /\ \E w \in Workers : workers[w].pc = "evaluated"

\* The nodes of the last Apply's graph whose Evaluate returned an error.
FailedNodes ==
    {n \in NodeSet(lastApply.built) :
        EvaluateError(BlockOf(nodeBlock, n)) # "none"}

EvaluatedAt(n) ==
    CHOOSE i \in 1..Len(lastApply.evaluated) : lastApply.evaluated[i] = n

C20_StoppedPoolNotRetried ==
    ed.pc = "submit" => ~ed.again

\* C21: when EvaluateDependencies has taken the read lock, the cache holds
\* the current exports of every component of the batch; only after that is
\* a dependant put on the queue, and a worker builds the context of its
\* evaluation from the cache as it is then.
C21_CacheHoldsBatchExports ==
    /\ [][(ed.pc = "rlock" /\ ed'.pc = "submit") =>
             \A p \in Range(ed.batch) :
                 /\ p.id \in DOMAIN cacheExports'
                 /\ cacheExports'[p.id] = ExportsOf(p)]_vars
    /\ [][Len(workQueue') > Len(workQueue) => ed.pc = "submit"]_vars
    /\ [][\A w \in Workers :
             (workers[w].pc = "taken" /\ workers'[w].pc = "evaluating")
               => workers'[w].ectx = cacheExports]_vars

\* The cache was behind for a component of the batch when the call took the
\* lock, and a dependant submitted by the call is being evaluated with the
\* component's current exports.
C21_Witness ==
    /\ ed.pc = "submit"
    /\ ed.stale # {}
    /\ \E w \in Workers :
          /\ workers[w].pc = "evaluating"
          /\ workers[w].node \in ed.submitted
          /\ \A p \in ed.stale : workers[w].ectx[p.id] = ExportsOf(p)

\* C22: an EvaluateDependencies call whose ctx stayed live has submitted
\* every dependant it found exactly once, also one that depends on several
\* components of the batch, and the originator passed along with it is a
\* component of the batch that the dependant references.
C22_EachDependantSubmittedOnce ==
    (lastED.n > 0 /\ ~lastED.cancelled) =>
        \A n \in lastED.found :
            /\ Cardinality({s \in BagToSet(lastED.sent) : s.node = n}) = 1
            /\ \A s \in BagToSet(lastED.sent) :
                  s.node = n =>
                      /\ CopiesIn(s, lastED.sent) = 1
                      /\ s.parent \in Range(lastED.batch)
                      /\ s.parent.id \in BlockOf(nodeBlock, n).refs

\* A call with a batch of two components returned, and a dependant
\* references both.
C22_Witness ==
    /\ lastED.n > 0
    /\ ~lastED.cancelled
    /\ Len(lastED.batch) = 2
    /\ \E n \in lastED.found :
          \A p \in Range(lastED.batch) : p.id \in BlockOf(nodeBlock, n).refs

\* C23: whenever Apply does not hold the lock, Components() is exactly the
\* set of ComponentNodes of Graph() and Services() exactly the set of its
\* ServiceNodes.
C23_NodeListsMatchGraph ==
    mutWriter # "apply" =>
        /\ Range(componentNodes) = {n \in NodeSet(graph) : n.kind = "component"}
        /\ Range(serviceNodes) = {n \in NodeSet(graph) : n.kind = "service"}

\* A second configuration was installed, with other components than the
\* first, and the graph has a service.
C23_Witness ==
    /\ mutWriter # "apply"
    /\ lastApply.status = "installed"
    /\ lastApply.pre.status = "installed"
    /\ Range(lastApply.pre.componentNodes) # Range(componentNodes)
    /\ serviceNodes # <<>>

\* C24: the snapshot kept as the original graph has every edge the graph
\* had before its reduction, and whatever a caller does to the edges of a
\* graph it got from Graph() or OriginalGraph(), the Loader's graph stays
\* the reduced graph and its original graph the unreduced one.
C24_SnapshotIsIndependent ==
    /\ heap[ptr.original] = ptr.built
    /\ heap[ptr.graph] = Reduce(ptr.built)

\* The reduction removed an edge, and a caller has changed the edges of the
\* graph it got.
C24_Witness ==
    /\ heap[ptr.original].edges # heap[ptr.graph].edges
    /\ \E a \in ptr.got :
          /\ heap[a].edges # heap[ptr.original].edges
          /\ heap[a].edges # heap[ptr.graph].edges

\* What is wrong with the i-th component block of a configuration without
\* declares, read off the blocks alone.
BadKind(blocks, i) ==
    IF \E j \in 1..(i - 1) : BlockComponentID(blocks[j]) = BlockComponentID(blocks[i])
       THEN "already-declared"
    ELSE IF blocks[i].label = "" THEN "no-label"
    ELSE IF blocks[i].name \notin Registry THEN "unrecognized"
    ELSE "ok"

DiagCount(diags, d) == Cardinality({i \in 1..Len(diags) : diags[i] = d})

\* C25: populateComponentNodes goes through all its blocks: every block
\* that repeats an ID, has no label or is of an unknown type adds exactly
\* one error diagnostic and no node, the ComponentNodes of the graph are
\* those of the other blocks, bad blocks before them or not, and the node of
\* a repeated ID points at the first block of that ID.
C25_BadBlockCostsOneDiagnostic ==
    \A cfg \in BadBlockConfigs :
        (ApplyFinished /\ lastApply.cfg = cfg.name /\ NoApplyRunning) =>
            LET blocks == SelectSeq(cfg.components, LAMBDA b : ~IsServiceBlock(b))
                idx == 1..Len(blocks)
                bad == {i \in idx : BadKind(blocks, i) # "ok"}
                built == {n \in NodeSet(lastApply.built) : n.kind = "component"}
            IN  /\ \A i \in bad :
                      DiagCount(lastApply.diags,
                                Diag(BadKind(blocks, i), BlockComponentID(blocks[i])))
                        = Cardinality({j \in bad :
                              /\ BadKind(blocks, j) = BadKind(blocks, i)
                              /\ BlockComponentID(blocks[j]) = BlockComponentID(blocks[i])})
                /\ Cardinality({i \in 1..Len(lastApply.diags) :
                       lastApply.diags[i].kind \in
                           {"already-declared", "no-label", "unrecognized"}})
                     = Cardinality(bad)
                /\ {n.id : n \in built}
                     = {BlockComponentID(blocks[i]) : i \in idx \ bad}
                /\ \A i \in idx \ bad : \A n \in built :
                      n.id = BlockComponentID(blocks[i])
                        => BlockOf(lastApply.blocks, n)
                             = [blocks[i] EXCEPT !.gen = lastApply.n]

\* An Apply whose blocks had all three faults, a valid block after them,
\* on top of an installed graph.
C25_Witness ==
    /\ ApplyFinished
    /\ NoApplyRunning
    /\ lastApply.cfg = "badblocks"
    /\ lastApply.pre.status = "installed"
    /\ HasID(lastApply.built, "comp.b")
    /\ \A k \in {"already-declared", "no-label", "unrecognized"} :
          \E i \in 1..Len(lastApply.diags) : lastApply.diags[i].kind = k

\* The blocks of a configuration that configure service id, as the Apply
\* that was the last to finish got them.
ServiceBlocksOf(cfg, id) ==
    SelectSeq(Stamp(cfg.components, lastApply.n),
              LAMBDA b : BlockComponentID(b) = id)

\* C26: after an Apply that installed its graph, the graph has exactly one
\* ServiceNode per service, the instance of the graph installed before when
\* that had one, and its block is the block of this Apply for the service,
\* or nil when this Apply had none; when an Apply had several blocks for a
\* service, each but the first gave one diagnostic and the node got the
\* first.
C26_OneNodePerService ==
    \A cfg \in ServiceConfigs : \A id \in ServiceNames :
        (ApplyFinished /\ lastApply.cfg = cfg.name /\ NoApplyRunning) =>
            LET blocks == ServiceBlocksOf(cfg, id)
                nodes == {n \in NodeSet(lastApply.built) : n.id = id}
                was == lastApply.pre.graph
            IN  /\ lastApply.status = "installed" =>
                      /\ lastApply.built = graph
                      /\ Cardinality({i \in 1..Len(graph.nodes) :
                                          graph.nodes[i].id = id}) = 1
                      /\ \A n \in nodes :
                            /\ n.kind = "service"
                            /\ HasID(was, id) => n = GetByID(was, id)
                            /\ BlockOf(nodeBlock, n) =
                                 IF blocks = <<>> THEN NilBlock ELSE blocks[1]
                /\ Len(blocks) > 1 =>
                      /\ DiagCount(lastApply.diags, Diag("duplicate-service", id))
                           = Len(blocks) - 1
                      /\ \A n \in nodes :
                            BlockOf(lastApply.blocks, n) = blocks[1]

\* An installed Apply without a block for a service that the Apply before
\* it configured.
C26_Witness ==
    /\ ApplyFinished
    /\ NoApplyRunning
    /\ lastApply.status = "installed"
    /\ lastApply.cfg = "triangle"
    /\ lastApply.pre.cfg = "pair"
    /\ lastApply.pre.status = "installed"
    /\ \E n \in NodeSet(graph) :
          /\ n.kind = "service"
          /\ BlockOf(lastApply.pre.nodeBlock, n) # NilBlock

\* An Apply with two blocks for the service, on top of an installed graph.
C26_TwoBlocksReached ==
    /\ ApplyFinished
    /\ NoApplyRunning
    /\ lastApply.cfg = "twoblocks"
    /\ lastApply.pre.status = "installed"

\* C27: in the full evaluation of Apply, the DeclareComponentNode of every
\* instance of a declare block is evaluated, and before every
\* ArgumentConfigNode whose namespace is that instance.
C27_DeclareBeforeItsArguments ==
    (ap.pc = "idle" /\ lastApply.status = "installed") =>
        \A x \in NodeSet(graph) : \A n \in NodeSet(graph) :
            (x.kind = "declare" /\ n.kind = "argument" /\ n.ns = x.id)
              => /\ x \in Range(lastApply.evaluated)
                 /\ n \in Range(lastApply.evaluated)
                 /\ EvaluatedAt(x) < EvaluatedAt(n)

\* A graph with two instances, each with its argument, installed over a
\* graph with an instance.
C27_Witness ==
    /\ ap.pc = "idle"
    /\ lastApply.status = "installed"
    /\ lastApply.pre.status = "installed"
    /\ lastApply.pre.cfg = "declare"
    /\ Cardinality({x \in NodeSet(graph) :
          /\ x.kind = "declare"
          /\ \E n \in NodeSet(graph) : n.kind = "argument" /\ n.ns = x.id}) = 2

\* No Apply is going on, no task is queued or running and no
\* EvaluateDependencies call is going on.
Quiescent ==
    /\ ap.pc = "idle"
    /\ workQueue = <<>>
    /\ Busy = {}
    /\ ed.pc = "idle"

SyncedHashes ==
    {t.hash : t \in {tt \in ScrapeTargets :
        /\ tt.labels # ""
        /\ \E i \in 1..Len(synced.groups) :
              /\ ~synced.groups[i].err
              /\ tt \in Range(synced.groups[i].targets)}}

\* C30: once sync has returned, the keys of activeTargets are the hashes of
\* the targets with a non-empty label set that the groups gave; each has a
\* started loop, and every other loop the pool ever made is stopped and no
\* longer in the map.
C30_ActiveTargetsFollowGroups ==
    synced.called =>
        /\ DOMAIN activeTargets = SyncedHashes
        /\ \A h \in DOMAIN activeTargets :
              /\ activeTargets[h].id \in DOMAIN scrapeLoops
              /\ scrapeLoops[activeTargets[h].id] = "started"
              /\ activeTargets[h].target.hash = h
        /\ \A l \in DOMAIN scrapeLoops :
              (\A h \in DOMAIN activeTargets : activeTargets[h].id # l)
                 => scrapeLoops[l] = "stopped"

\* The last sync kept the loop of one hash and stopped the loop of another,
\* and its groups had a target without labels next to a group that gave an
\* error.
C30_Witness ==
    /\ synced.called
    /\ \E h \in DOMAIN activeTargets : activeTargets[h].id.gen < synced.n
    /\ \E l \in DOMAIN scrapeLoops : scrapeLoops[l] = "stopped"
    /\ Len(synced.groups) = 2
    /\ \E i \in 1..2 :
          \/ synced.groups[i].err
          \/ \E t \in Range(synced.groups[i].targets) : t.labels = ""

\* The discovered labels of the last target with hash h that the groups of
\* a sync gave.
LastDiscovered(groups, h) ==
    LET ts == Actives(groups)
        i == CHOOSE j \in 1..Len(ts) :
                 /\ ts[j].hash = h
                 /\ \A k \in (j + 1)..Len(ts) : ts[k].hash # h
    IN  ts[i].discovered

\* C31: a sync leaves the loop of a target that is active before and after
\* it as it is: the same loop is in activeTargets, with its client,
\* interval and timeout, it is not stopped and not started again, and its
\* discovered labels are those of the target the groups gave.
C31_SyncKeepsRunningLoops ==
    [][(synced'.n = synced.n + 1 /\ synced'.op = "sync") =>
          \A h \in DOMAIN activeTargets \cap DOMAIN activeTargets' :
              LET id == activeTargets[h].id
              IN  /\ activeTargets'[h] =
                        [activeTargets[h] EXCEPT !.target.discovered =
                            LastDiscovered(synced'.groups, h)]
                  /\ loopRun'[id] = loopRun[id]
                  /\ scrapeLoops'[id] = scrapeLoops[id]]_vars

\* After a sync, a loop of an earlier call is in activeTargets, started
\* once and never stopped, with the discovered labels of the second of two
\* targets with its hash.
C31_Witness ==
    /\ synced.op = "sync"
    /\ \E h \in DOMAIN activeTargets :
          /\ activeTargets[h].id.gen < synced.n
          /\ loopRun[activeTargets[h].id].starts = 1
          /\ loopRun[activeTargets[h].id].stops = 0
          /\ Len(Actives(synced.groups)) = 2
          /\ \A i \in 1..2 : Actives(synced.groups)[i].hash = h
          /\ Actives(synced.groups)[1].discovered # Actives(synced.groups)[2].discovered
          /\ activeTargets[h].target.discovered = Actives(synced.groups)[2].discovered

\* C32 (as claimed): when reload(cfg) has returned nil, every loop in
\* activeTargets has cfg's scrape interval and scrape timeout and a client
\* made from cfg's HTTP client config, whatever syncs and reloads came
\* before, a reload that returned an error included.
C32_LoopsRunWithReloadedArguments ==
    (synced.op = "reload" /\ ~synced.err) =>
        \A h \in DOMAIN activeTargets :
            /\ activeTargets[h].interval = synced.cfg.interval
            /\ activeTargets[h].timeout = synced.cfg.timeout
            /\ ~NewClientFromConfig(synced.cfg.http).err
            /\ activeTargets[h].client = NewClientFromConfig(synced.cfg.http).client

\* C33 (as claimed, in its weakest reading): of the loops the pool made for
\* one target hash at most one is in scrape() at any time, because a loop
\* that reload replaced or sync removed has finished before the next loop
\* for the hash scrapes.
C33_OneScrapePerTarget ==
    \A l, m \in DOMAIN loopRun :
        (l.hash = m.hash /\ loopRun[l].go = "scraping" /\ loopRun[m].go = "scraping")
          => l = m

\* C34 (as claimed): when scrapePool.stop() has returned, no goroutine of a
\* loop this pool started is still running, whatever syncs and reloads came
\* before.
C34_StopLeavesNoGoroutine ==
    synced.op = "stop" => \A l \in DOMAIN loopRun : loopRun[l].go = "done"

C36_FanOutInOrder ==
    (manager.made = "ok" /\ ~manager.wal) =>
        LET n == Len(manager.clients)
        IN  /\ n = Len(manager.cfgs)
            /\ \A c \in 1..n :
                  created[manager.clients[c]].name = manager.cfgs[c].name
            /\ Len(sends) <= Len(accepted) * n
            /\ Len(sends) >= (Len(accepted) - 1) * n
            /\ \A p \in 1..Len(sends) :
                  /\ sends[p].e = accepted[((p - 1) \div n) + 1]
                  /\ sends[p].to = manager.clients[((p - 1) % n) + 1]
            /\ fwd.pc \in {"recv", "done"} => Len(sends) = Len(accepted) * n
            /\ fwd.pc = "send" =>
                  Len(sends) = (Len(accepted) - 1) * n + (fwd.i - 1)

\* Two different entries went to two clients each.
C36_Witness ==
    /\ manager.made = "ok"
    /\ ~manager.wal
    /\ Len(manager.clients) = 2
    /\ Len(accepted) = 2
    /\ accepted[1] # accepted[2]
    /\ Len(sends) = 4
    /\ fwd.pc = "recv"

\* C37: the entry channel is closed at most once however many Stop calls
\* there are; a WAL watcher or a client is stopped by Stop only when the
\* channel is closed and the goroutine reading it has exited, a client only
\* when every WAL watcher has been stopped; and nothing is sent to a
\* client's channel after Stop stopped that client.
C37_StopAfterForwarderExit ==
    /\ manager.closes <= 1
    /\ manager.closed <=> manager.closes = 1
    /\ \A p \in 1..Len(sends) : ~sends[p].late
    /\ \A c \in DOMAIN created :
          created[c].stops > 0 =>
              /\ manager.closed
              /\ fwd.pc = "done"
              /\ created[c].kind = "client" =>
                    \A w \in Range(manager.walWatchers) : created[w].stops > 0

\* Two Stop calls have returned: the clients, which were sent entries, were
\* stopped twice and the channel was closed once.
C37_Witness ==
    /\ \A k \in StopCallers : stopCalls[k].pc = "done"
    /\ manager.closes = 1
    /\ Len(sends) >= 2
    /\ Len(manager.clients) = 2
    /\ \A c \in Range(manager.clients) : created[c].stops = 2

\* C38 (as claimed): when NewManager has returned an error, every WAL
\* watcher it started and every client it made has been stopped.
C38_FailedNewManagerLeavesNothing ==
    manager.made = "err" => \A c \in DOMAIN created : created[c].stops > 0

\* C39 (as claimed, in its weakest reading): allSeries is read and written
\* under cacheMut on every call path, so that while the append hook or the
\* /clear handler is at its write of allSeries no call is in a traversal of
\* the map without holding cacheMut.
C39_NoUnlockedTraversalDuringWrite ==
    \A w, r \in XrayThreads :
        (xrayCalls[w].pc = "writing" /\ xrayCalls[r].pc = "reading")
          => r \in cacheMut.readers

====
